---- MODULE Spec2Model ----
(***************************************************************************)
(* Model of the GridAI trading bot: the GridTradingBot class (the polling  *)
(* timer, monitorPricesAndExecuteTrades, processGrid, findGridLevelIndex,  *)
(* executeBuyTrade, executeSellTrade) and the persistence functions it     *)
(* calls (getAllGrids, updateGridCurrentPrice, updateGridTokenAmounts,     *)
(* incrementGridTrades, createTrade).                                      *)
(*                                                                         *)
(* Every `await` of the source is a suspension point: one action of the    *)
(* model is the arrival of an awaited result followed by all synchronous   *)
(* code up to the next await.  Each firing of the setInterval timer starts *)
(* a new invocation of monitorPricesAndExecuteTrades (a "task"); tasks     *)
(* interleave at their awaits, as promises do on the JS event loop.        *)
(*                                                                         *)
(* Units.  Prices and target-side (USD) amounts are integers.  Source-side *)
(* amounts are integers counting 1/SourceDen of a token, so that every     *)
(* quotient quantityPerLevel / levelPrice of the modelled grids is exact.  *)
(* Prices arrive as decimal strings and are parsed with parseFloat; the    *)
(* modelled prices are whole numbers, on which parseFloat is exact.        *)
(***************************************************************************)
EXTENDS Integers, Sequences, FiniteSets, TLC

\* ---------------------------------------------------------------- bounds
\* timer firings explored
MaxTicks == 2
\* process restarts (SIGINT, then main() again) explored
MaxRestarts == 1
\* failures of the collaborators explored: swaps that fail and persistence
\* calls that raise
MaxFaults == 1
\* largest level count of the level tables findGridLevelIndex is probed with
MaxLevelCount == 3
\* largest boundary price of those tables
MaxBoundary == 6
\* calls of updateGridPriceLimits explored
MaxEdits == 1
\* calls of updateGridCurrentPrice explored next to them
MaxCheckpoints == 2

\* calls of start() and of stop() on one GridTradingBot
MaxStarts == 2

MaxStops == 2

\* ------------------------------------------------------------- constants
\* JS null / undefined for a numeric field
Null == 0 - 1
\* a token without an entry in the price response
Missing == 0 - 2
\* denominator of the source-side amounts: every quantityPerLevel / levelPrice
\* of GridDocs is a whole number of 1/SourceDen
SourceDen == 8 * 3 * 7 * 11 * 23
\* Math.floor(x * 1000000) of the swap requests
UnitScale == 1000000

GridIds == {"g1", "g2"}

\* the grids as createGrid stored them (evenly spaced level tables)
EvenLevels(lower, upper, n) == [i \in 0..n |-> lower + ((upper - lower) \div n) * i]

GridDocs ==
  [g \in GridIds |->
     IF g = "g1"
     THEN [id |-> "g1", sourceTokenId |-> "SOL", targetTokenId |-> "USDC",
           lowerLimit |-> 100, upperLimit |-> 120, gridCount |-> 4,
           quantityInvested |-> 100, levels |-> EvenLevels(100, 120, 4),
           currentPrice |-> Null, currentGridIndex |-> Null,
           sourceTokenAmount |-> 2 * SourceDen, targetTokenAmount |-> 40,
           totalBuys |-> 0, totalSells |-> 0]
     ELSE [id |-> "g2", sourceTokenId |-> "SOL", targetTokenId |-> "JUP",
           lowerLimit |-> 10, upperLimit |-> 30, gridCount |-> 2,
           quantityInvested |-> 60, levels |-> EvenLevels(10, 30, 2),
           currentPrice |-> Null, currentGridIndex |-> Null,
           sourceTokenAmount |-> Null, targetTokenAmount |-> Null,
           totalBuys |-> 0, totalSells |-> 0]]

\* the order getGrids returns the documents in (sort by _id descending)
LoadOrder == <<"g1", "g2">>

\* prices the price source may report per token
TokenPrices(tok) ==
  IF tok = "USDC" THEN {95, 101, 106, 118, 125, Missing} ELSE {25}

\* last prices a previous run of the bot may have checkpointed, per token
SeedPrice(tok) == IF tok = "USDC" THEN 106 ELSE 25

Tokens == {GridDocs[g].targetTokenId : g \in GridIds}

PriceResponses == {r \in [Tokens -> 0 - 2 .. 125] : \A tok \in Tokens : r[tok] \in TokenPrices(tok)}

\* ------------------------------------------------------------- variables
VARIABLES
  db,            \* Grid collection: id -> document
  trades,        \* Trade collection, in insertion order
  proc,          \* "new" | "initializing" | "running"
  grids,         \* GridTradingBot.grids
  isRunning,     \* GridTradingBot.isRunning
  timer,         \* GridTradingBot.priceMonitorInterval is set
  gridStateMap,  \* GridTradingBot.gridStateMap
  task,          \* invocations of monitorPricesAndExecuteTrades, by tick
  tickCount,     \* timer firings so far
  restarts,      \* process restarts so far
  faults,        \* failed swaps and raising persistence calls so far
  moveId,        \* per grid: assignments to gridState.currentGridIndex
  probe,         \* one call of findGridLevelIndex: its arguments and result
  admin          \* calls of createGrid, updateGridPriceLimits and
                 \* updateGridCurrentPrice made from outside the bot

vars == <<db, trades, proc, grids, isRunning, timer, gridStateMap, task,
          tickCount, restarts, faults, moveId, probe, admin>>

TaskIds == 1..MaxTicks

\* what a task saw of one grid: the level pointer it read (prev), the level
\* of the price (new), the moveId and the finished tasks at that moment,
\* whether it took the branch of the first check, and the level pointer
\* when its processGrid returned
NoObs == [prev |-> Null, new |-> Null, price |-> Null, move |-> Null,
          seen |-> FALSE, first |-> FALSE, ended |-> FALSE, endLevel |-> Null,
          after |-> {}]

IdleTask ==
  [pc |-> "idle", fetch |-> "none", prices |-> [tok \in Tokens |-> Missing], gi |-> 0,
   price |-> Null, newIdx |-> Null, prevIdx |-> Null, i |-> Null,
   side |-> "NONE", argSource |-> Null, argTarget |-> Null, request |-> <<>>,
   log |-> <<>>, obs |-> [g \in GridIds |-> NoObs]]

\* ------------------------------------------------------- pure functions
Min(S) == CHOOSE x \in S : \A y \in S : x <= y

\* Object.entries(levels).map(...).sort((a, b) => a.price - b.price):
\* entries in ascending key order, then a stable sort by price
SortedLevels(levels) ==
  LET keys == DOMAIN levels
      rank(k) == Cardinality({j \in keys : levels[j] < levels[k]
                                           \/ (levels[j] = levels[k] /\ j < k)}) + 1
  IN [r \in 1..Cardinality(keys) |->
        LET k == CHOOSE k \in keys : rank(k) = r
        IN [index |-> k, price |-> levels[k]]]

\* the scan with the intervals closed at the top instead of at the bottom
ScanLevelsUpperClosed(levels, price) ==
  LET s == SortedLevels(levels)
      hits == {i \in 1..(Len(s) - 1) : price > s[i].price /\ price <= s[i + 1].price}
  IN IF hits = {} THEN Null ELSE s[Min(hits)].index

\* the scan returning the level at the upper end of the interval
ScanLevelsUpperEnd(levels, price) ==
  LET s == SortedLevels(levels)
      hits == {i \in 1..(Len(s) - 1) : price >= s[i].price /\ price < s[i + 1].price}
  IN IF hits = {} THEN Null ELSE s[Min(hits) + 1].index

\* the first i with levels[i].price <= price < levels[i + 1].price, if any
ScanLevels(levels, price) ==
  LET s == SortedLevels(levels)
      hits == {i \in 1..(Len(s) - 1) : price >= s[i].price /\ price < s[i + 1].price}
  IN IF hits = {} THEN Null ELSE s[Min(hits)].index

\* a lookup that puts a price at or above the upper limit one level past
\* the last
FindGridLevelIndexPast(grid, price) ==
  IF price >= grid.upperLimit THEN grid.gridCount + 1
  ELSE IF price <= grid.lowerLimit THEN 0
  ELSE LET hit == ScanLevels(grid.levels, price)
       IN IF hit # Null THEN hit ELSE grid.gridCount \div 2

FindGridLevelIndex(grid, price) ==
  IF price >= grid.upperLimit THEN grid.gridCount
  ELSE IF price <= grid.lowerLimit THEN 0
  ELSE LET hit == ScanLevels(grid.levels, price)
       IN IF hit # Null THEN hit ELSE grid.gridCount \div 2

\* `x || null` of initialize: 0, null and undefined all give null
OrNull(x) == IF x = Null \/ x = 0 THEN Null ELSE x

\* `x || 0` of initialize
OrZero(x) == IF x = Null THEN 0 ELSE x

\* grid.quantityInvested / grid.gridCount
UsdInvestmentPerLevel(grid) == grid.quantityInvested \div grid.gridCount

\* usdInvestmentPerLevel / levelPrice, in 1/SourceDen of a source token
SourceTokenAmount(grid, levelPrice) ==
  (UsdInvestmentPerLevel(grid) * SourceDen) \div levelPrice

\* sourceTokenAmount * levelPrice, in target units
TargetTokenAmount(grid, levelPrice) ==
  (SourceTokenAmount(grid, levelPrice) * levelPrice) \div SourceDen

\* a BUY request for a share of the target balance the grid holds
BuyRequestOfBalance(grid, levelIndex) ==
  [gridId |-> grid.id, side |-> "BUY", level |-> levelIndex,
   inputMint |-> grid.sourceTokenId, outputMint |-> grid.targetTokenId,
   amount |-> (OrZero(grid.targetTokenAmount) \div grid.gridCount) * UnitScale,
   slippageBps |-> 100]

\* the arguments executeBuyTrade passes to quoteAndSwap
BuyRequest(grid, levelIndex) ==
  [gridId |-> grid.id, side |-> "BUY", level |-> levelIndex,
   inputMint |-> grid.sourceTokenId, outputMint |-> grid.targetTokenId,
   amount |-> UsdInvestmentPerLevel(grid) * UnitScale, slippageBps |-> 100]

\* a SELL request whose amount is the per-level investment, not divided by
\* the level price
SellRequestUndivided(grid, levelIndex) ==
  [gridId |-> grid.id, side |-> "SELL", level |-> levelIndex,
   inputMint |-> grid.sourceTokenId, outputMint |-> grid.targetTokenId,
   amount |-> UsdInvestmentPerLevel(grid) * UnitScale, slippageBps |-> 100]

\* the arguments executeSellTrade passes to quoteAndSwap
SellRequest(grid, levelIndex) ==
  [gridId |-> grid.id, side |-> "SELL", level |-> levelIndex,
   inputMint |-> grid.sourceTokenId, outputMint |-> grid.targetTokenId,
   amount |-> (UsdInvestmentPerLevel(grid) * UnitScale) \div grid.levels[levelIndex],
   slippageBps |-> 100]

\* the profit measured from the grid's lower limit at every level
SellProfitFromLowerLimit(grid, levelIndex) ==
  (grid.levels[levelIndex] - grid.lowerLimit)
    * SourceTokenAmount(grid, grid.levels[levelIndex])

\* profit of a SELL at levelIndex, in 1/SourceDen of a target unit
SellProfit(grid, levelIndex) ==
  LET buyPrice == IF levelIndex > 0 THEN grid.levels[levelIndex - 1] ELSE grid.lowerLimit
  IN (grid.levels[levelIndex] - buyPrice) * SourceTokenAmount(grid, grid.levels[levelIndex])

\* a BUY record that carries the profit of the level
BuyTradeWithProfit(grid, levelIndex, move, tick) ==
  [gridId |-> grid.id, side |-> "BUY",
   inputTokenId |-> grid.targetTokenId, outputTokenId |-> grid.sourceTokenId,
   inputAmount |-> SourceTokenAmount(grid, grid.levels[levelIndex]),
   outputAmount |-> UsdInvestmentPerLevel(grid),
   gridLevel |-> levelIndex, profit |-> SellProfit(grid, levelIndex),
   move |-> move, tick |-> tick]

\* the document createTrade receives
BuyTrade(grid, levelIndex, move, tick) ==
  [gridId |-> grid.id, side |-> "BUY",
   inputTokenId |-> grid.targetTokenId, outputTokenId |-> grid.sourceTokenId,
   inputAmount |-> SourceTokenAmount(grid, grid.levels[levelIndex]),
   outputAmount |-> UsdInvestmentPerLevel(grid),
   gridLevel |-> levelIndex, profit |-> Null, move |-> move, tick |-> tick]

SellTrade(grid, levelIndex, move, tick) ==
  [gridId |-> grid.id, side |-> "SELL",
   inputTokenId |-> grid.sourceTokenId, outputTokenId |-> grid.targetTokenId,
   inputAmount |-> SourceTokenAmount(grid, grid.levels[levelIndex]),
   outputAmount |-> TargetTokenAmount(grid, grid.levels[levelIndex]),
   gridLevel |-> levelIndex, profit |-> SellProfit(grid, levelIndex),
   move |-> move, tick |-> tick]

\* ------------------------------------------------- synchronous segments
\* A machine state m = [t, gs, mv]: one task's locals, gridStateMap and
\* moveId, as a synchronous segment transforms them.

\* for (let i = ...; i <= newGridIndex; i++) / for (...; i > newGridIndex; i--)
NextLevel(side, i) == IF side = "SELL" THEN i + 1 ELSE i - 1

LoopTestStrict(side, i, newIdx) == IF side = "SELL" THEN i < newIdx ELSE i > newIdx

LoopTest(side, i, newIdx) == IF side = "SELL" THEN i <= newIdx ELSE i > newIdx

\* a replay loop that begins one level below the pointer when buying
FirstLevelBelow(side, prevIdx) == IF side = "SELL" THEN prevIdx + 1 ELSE prevIdx - 1

\* the first level the replay loop of processGrid visits
FirstLevel(side, prevIdx) == IF side = "SELL" THEN prevIdx + 1 ELSE prevIdx

\* the loop of processGrid from level i on, up to the next await:
\* executeSellTrade / executeBuyTrade until quoteAndSwap is called, or, past
\* the last level, gridState.currentGridIndex = newGridIndex and the call
\* of updateGridCurrentPrice
RECURSIVE LevelFrom(_, _)
LevelFrom(m, i) ==
  LET grid == grids[m.t.gi]
      g == grid.id
  IN IF ~LoopTest(m.t.side, i, m.t.newIdx)
     THEN [m EXCEPT !.t.pc = "savePrice", !.t.i = Null,
                    !.gs[g].currentGridIndex = m.t.newIdx,
                    !.mv[g] = @ + 1]
     ELSE IF i \notin DOMAIN grid.levels \/ grid.levels[i] = 0
          THEN LevelFrom(m, NextLevel(m.t.side, i))
          ELSE [m EXCEPT !.t.pc = "swap", !.t.i = i,
                         !.t.request = IF m.t.side = "SELL"
                                       THEN SellRequest(grid, i)
                                       ELSE BuyRequest(grid, i)]

\* the first observation of processGrid: the level is recorded and
\* updateGridCurrentPrice is called, no trade
RecordLevelNoStore(m, g, newIdx) ==
  [m EXCEPT !.mv[g] = @ + 1, !.t.pc = "savePrice", !.t.side = "NONE"]

RecordLevel(m, g, newIdx) ==
  [m EXCEPT !.gs[g].currentGridIndex = newIdx,
            !.mv[g] = @ + 1,
            !.t.pc = "savePrice", !.t.side = "NONE"]

\* the first check taken on every falsy level pointer, level 0 included
IsFirstCheckFalsy(prevIdx) == prevIdx = Null \/ prevIdx = 0

\* `previousGridIndex === null`
IsFirstCheck(prevIdx) == prevIdx = Null

\* a price taken for absent although the response has none for the token
NoPriceNever(currentPrice) == FALSE

\* `!currentPrice` for tokenPrices[grid.targetTokenId]?.price
NoPrice(currentPrice) == currentPrice = Missing

\* a level test that takes every observation for a change of level
LevelChangedAlways(newIdx, prevIdx) == TRUE

\* `newGridIndex !== previousGridIndex`
LevelChanged(newIdx, prevIdx) == newIdx # prevIdx

\* the loop of monitorPricesAndExecuteTrades from the k-th grid on:
\* processGrid up to its first await, for the first grid that reaches one
RECURSIVE ProcessFrom(_, _)
ProcessFrom(m, k) ==
  IF k > Len(grids)
  THEN [m EXCEPT !.t.pc = "done", !.t.gi = k]
  ELSE
    LET grid == grids[k]
        g == grid.id
        currentPrice == m.t.prices[grid.targetTokenId]
    IN IF NoPrice(currentPrice) \/ g \notin DOMAIN m.gs
       THEN ProcessFrom(m, k + 1)
       ELSE
         LET newIdx == FindGridLevelIndex(grid, currentPrice)
             prevIdx == m.gs[g].currentGridIndex
             ob == [prev |-> prevIdx, new |-> newIdx, price |-> currentPrice,
                    move |-> m.mv[g], seen |-> TRUE,
                    first |-> IsFirstCheck(prevIdx), ended |-> FALSE,
                    endLevel |-> Null,
                    after |-> {u \in TaskIds : task[u].pc = "done"}]
             m1 == [m EXCEPT !.gs[g].lastCheckedPrice = currentPrice,
                             !.t.gi = k, !.t.price = currentPrice,
                             !.t.newIdx = newIdx, !.t.prevIdx = prevIdx,
                             !.t.obs[g] = ob]
         IN IF IsFirstCheck(prevIdx)
            THEN RecordLevel(m1, g, newIdx)
            ELSE IF LevelChanged(newIdx, prevIdx)
                 THEN LET side == IF newIdx > prevIdx THEN "SELL" ELSE "BUY"
                      IN LevelFrom([m1 EXCEPT !.t.side = side],
                                   FirstLevel(side, prevIdx))
                 ELSE ProcessFrom([m1 EXCEPT !.t.obs[g].ended = TRUE,
                                             !.t.obs[g].endLevel = prevIdx,
                                             !.t.side = "NONE"],
                                  k + 1)

Machine(t) == [t |-> task[t], gs |-> gridStateMap, mv |-> moveId]

\* the machine state written back to the variables
Commit(t, m) ==
  /\ task' = [task EXCEPT ![t] = m.t]
  /\ gridStateMap' = m.gs
  /\ moveId' = m.mv

\* processGrid returns (normally or through its catch): the loop of
\* monitorPricesAndExecuteTrades goes on with the next grid
EndGrid(m) ==
  LET g == grids[m.t.gi].id
  IN ProcessFrom([m EXCEPT !.t.obs[g].ended = TRUE,
                           !.t.obs[g].endLevel = m.gs[g].currentGridIndex,
                           !.t.side = "NONE", !.t.i = Null],
                 m.t.gi + 1)

\* an exception of processGrid that reaches the catch of
\* monitorPricesAndExecuteTrades
GridFailedAborts(m) ==
  LET g == grids[m.t.gi].id
  IN [m EXCEPT !.t.obs[g].ended = TRUE,
               !.t.obs[g].endLevel = m.gs[g].currentGridIndex,
               !.t.side = "NONE", !.t.i = Null, !.t.pc = "done"]

\* a catch of processGrid that puts the stored level pointer back into the
\* tracking state
GridFailedReloads(m) ==
  LET g == grids[m.t.gi].id
  IN EndGrid([m EXCEPT !.gs[g].currentGridIndex = OrNull(db[g].currentGridIndex)])

\* the catch of processGrid: the error is logged, processGrid returns
GridFailed(m) == EndGrid(m)

\* --------------------------------------------------------------- actions
NoStateMap == [g \in {} |-> 0]

\* a document with the checkpoint updateGridCurrentPrice stores for a price
Checkpointed(doc, price) ==
  [doc EXCEPT !.currentPrice = price,
              !.currentGridIndex = ScanLevels(doc.levels, price)]

\* a GridTradingBot just constructed, nothing recorded yet
IdleBot ==
  /\ trades = <<>>
  /\ proc = "new"
  /\ grids = <<>>
  /\ isRunning = FALSE
  /\ timer = FALSE
  /\ gridStateMap = NoStateMap
  /\ task = [t \in TaskIds |-> IdleTask]
  /\ tickCount = 0
  /\ restarts = 0
  /\ faults = 0
  /\ moveId = [g \in GridIds |-> 0]

BotInit ==
  /\ \E seeded \in BOOLEAN :
       db = [g \in GridIds |->
               IF seeded
               THEN Checkpointed(GridDocs[g], SeedPrice(GridDocs[g].targetTokenId))
               ELSE GridDocs[g]]
  /\ IdleBot

\* no call of findGridLevelIndex outside the bot
NoProbe == [grid |-> GridDocs["g1"], price |-> Null, index |-> Null, called |-> FALSE]

\* no call of the grid administration functions
NoCall == [pc |-> "idle", calls |-> 0]

NoAdmin ==
  [ul |-> NoCall, ucp |-> NoCall, uta |-> NoCall, create |-> NoCall, swap |-> NoCall,
   life |-> NoCall]

Init == BotInit /\ probe = NoProbe /\ admin = NoAdmin

\* main: bot.start() up to the await of getAllGrids in initialize
Start ==
  /\ proc = "new"
  /\ ~isRunning
  /\ proc' = "initializing"
  /\ UNCHANGED <<probe, admin, db, trades, grids, isRunning, timer, gridStateMap, task,
                 tickCount, restarts, faults, moveId>>

\* the state initialize seeds for one loaded grid document
SeedState(grid) ==
  [currentGridIndex |-> OrNull(grid.currentGridIndex),
   lastCheckedPrice |-> OrNull(grid.currentPrice),
   tokenAmounts |-> [source |-> OrZero(grid.sourceTokenAmount),
                     target |-> OrZero(grid.targetTokenAmount)]]

\* getAllGrids returns the documents: initialize seeds gridStateMap, start
\* sets isRunning and the interval
InitializeReturns ==
  /\ proc = "initializing"
  /\ grids' = [k \in 1..Len(LoadOrder) |-> db[LoadOrder[k]]]
  /\ gridStateMap' = [g \in GridIds |-> SeedState(db[g])]
  /\ isRunning' = TRUE
  /\ timer' = TRUE
  /\ proc' = "running"
  /\ moveId' = [g \in GridIds |-> moveId[g] + 1]
  /\ UNCHANGED <<probe, admin, db, trades, task, tickCount, restarts, faults>>

\* getGrids raises: getAllGrids returns [], the bot runs with no grid
InitializeFails ==
  /\ proc = "initializing"
  /\ faults < MaxFaults
  /\ faults' = faults + 1
  /\ grids' = <<>>
  /\ isRunning' = TRUE
  /\ timer' = TRUE
  /\ proc' = "running"
  /\ UNCHANGED <<probe, admin, db, trades, gridStateMap, task, tickCount, restarts, moveId>>

\* the interval fires: monitorPricesAndExecuteTrades up to the await of
\* getTokenPrices
TimerFires ==
  /\ timer
  /\ tickCount < MaxTicks
  /\ tickCount' = tickCount + 1
  /\ task' = [task EXCEPT ![tickCount + 1].pc =
                IF ~isRunning \/ Len(grids) = 0 THEN "done" ELSE "fetch"]
  /\ UNCHANGED <<probe, admin, db, trades, proc, grids, isRunning, timer, gridStateMap,
                 restarts, faults, moveId>>

\* getTokenPrices returns success: the grid loop starts
PricesReturn(t) ==
  /\ task[t].pc = "fetch"
  /\ \E r \in PriceResponses :
       Commit(t, ProcessFrom([Machine(t) EXCEPT !.t.prices = r, !.t.fetch = "ok"], 1))
  /\ UNCHANGED <<probe, admin, db, trades, proc, grids, isRunning, timer, tickCount,
                 restarts, faults>>

\* a failed price response handled as a response without any price
FetchFailedGoesOn(m) ==
  ProcessFrom([m EXCEPT !.t.fetch = "failed",
                        !.t.prices = [tok \in Tokens |-> 0]], 1)

\* `if (!priceResponse.success) return`
FetchFailed(m) == [m EXCEPT !.t.fetch = "failed", !.t.pc = "done"]

\* getTokenPrices returns success = false
PricesFail(t) ==
  /\ task[t].pc = "fetch"
  /\ Commit(t, FetchFailed(Machine(t)))
  /\ UNCHANGED <<probe, admin, db, trades, proc, grids, isRunning, timer,
                 tickCount, restarts, faults>>

Attempt(t, ok) ==
  LET g == grids[task[t].gi].id
  IN [grid |-> g, side |-> task[t].side, level |-> task[t].i, ok |-> ok,
      move |-> task[t].obs[g].move, request |-> task[t].request]

\* a failed swap after which the trade counter is incremented all the same
SwapFailsCounted(t) ==
  /\ task[t].pc = "swap"
  /\ faults < MaxFaults
  /\ faults' = faults + 1
  /\ LET g == grids[task[t].gi].id
     IN db' = IF task[t].side = "BUY"
              THEN [db EXCEPT ![g].totalBuys = @ + 1]
              ELSE [db EXCEPT ![g].totalSells = @ + 1]
  /\ LET m == [Machine(t) EXCEPT !.t.log = Append(@, Attempt(t, FALSE))]
     IN Commit(t, LevelFrom(m, NextLevel(task[t].side, task[t].i)))
  /\ UNCHANGED <<probe, admin, trades, proc, grids, isRunning, timer, tickCount,
                 restarts>>

\* quoteAndSwap returns success = false: the trade function returns, the
\* replay loop goes on
SwapFails(t) ==
  /\ task[t].pc = "swap"
  /\ faults < MaxFaults
  /\ faults' = faults + 1
  /\ LET m == [Machine(t) EXCEPT !.t.log = Append(@, Attempt(t, FALSE))]
     IN Commit(t, LevelFrom(m, NextLevel(task[t].side, task[t].i)))
  /\ UNCHANGED <<probe, admin, db, trades, proc, grids, isRunning, timer, tickCount,
                 restarts>>

\* gridState.tokenAmounts after a successful swap at levelIndex
ApplyTrade(amounts, grid, side, levelIndex) ==
  LET levelPrice == grid.levels[levelIndex]
  IN IF side = "SELL"
     THEN [source |-> amounts.source - SourceTokenAmount(grid, levelPrice),
           target |-> amounts.target + TargetTokenAmount(grid, levelPrice)]
     ELSE [source |-> amounts.source + SourceTokenAmount(grid, levelPrice),
           target |-> amounts.target - UsdInvestmentPerLevel(grid)]

\* quoteAndSwap returns success: the balances are updated in memory and
\* updateGridTokenAmounts is called with them
SwapSucceeds(t) ==
  /\ task[t].pc = "swap"
  /\ LET grid == grids[task[t].gi]
         g == grid.id
         amounts == ApplyTrade(gridStateMap[g].tokenAmounts, grid,
                               task[t].side, task[t].i)
     IN /\ gridStateMap' = [gridStateMap EXCEPT ![g].tokenAmounts = amounts]
        /\ task' = [task EXCEPT ![t].pc = "saveAmounts",
                                ![t].log = Append(@, Attempt(t, TRUE)),
                                ![t].argSource = amounts.source,
                                ![t].argTarget = amounts.target]
  /\ UNCHANGED <<probe, admin, db, trades, proc, grids, isRunning, timer, tickCount,
                 restarts, faults, moveId>>

\* updateGridTokenAmounts returns; incrementGridTrades is called
SaveAmountsReturns(t) ==
  /\ task[t].pc = "saveAmounts"
  /\ LET g == grids[task[t].gi].id
     IN db' = [db EXCEPT ![g].sourceTokenAmount = task[t].argSource,
                         ![g].targetTokenAmount = task[t].argTarget]
  /\ task' = [task EXCEPT ![t].pc = "incTrades"]
  /\ UNCHANGED <<probe, admin, trades, proc, grids, isRunning, timer, gridStateMap,
                 tickCount, restarts, faults, moveId>>

\* incrementGridTrades returns; createTrade is called
IncTradesReturns(t) ==
  /\ task[t].pc = "incTrades"
  /\ LET g == grids[task[t].gi].id
     IN db' = IF task[t].side = "BUY"
              THEN [db EXCEPT ![g].totalBuys = @ + 1]
              ELSE [db EXCEPT ![g].totalSells = @ + 1]
  /\ task' = [task EXCEPT ![t].pc = "createTrade"]
  /\ UNCHANGED <<probe, admin, trades, proc, grids, isRunning, timer, gridStateMap,
                 tickCount, restarts, faults, moveId>>

\* createTrade returns: the trade function returns, the replay loop goes on
CreateTradeReturns(t) ==
  /\ task[t].pc = "createTrade"
  /\ LET grid == grids[task[t].gi]
         move == task[t].obs[grid.id].move
     IN trades' = Append(trades, IF task[t].side = "BUY"
                                 THEN BuyTrade(grid, task[t].i, move, t)
                                 ELSE SellTrade(grid, task[t].i, move, t))
  /\ Commit(t, LevelFrom(Machine(t), NextLevel(task[t].side, task[t].i)))
  /\ UNCHANGED <<probe, admin, db, proc, grids, isRunning, timer, tickCount, restarts, faults>>

\* the index updateGridCurrentPrice stores with the price
StoredIndex(doc, currentPrice) == ScanLevels(doc.levels, currentPrice)

\* updateGridCurrentPrice returns: processGrid returns.  Its findById and
\* findByIdAndUpdate are taken as one step: no other writer of the level
\* table exists in this model.
SavePriceReturns(t) ==
  /\ task[t].pc = "savePrice"
  /\ LET g == grids[task[t].gi].id
     IN db' = [db EXCEPT ![g].currentPrice = task[t].price,
                         ![g].currentGridIndex = StoredIndex(db[g], task[t].price)]
  /\ Commit(t, EndGrid(Machine(t)))
  /\ UNCHANGED <<probe, admin, trades, proc, grids, isRunning, timer, tickCount, restarts, faults>>

\* a persistence call raises: inside a trade function its catch returns and
\* the replay loop goes on; in processGrid its catch returns
PersistenceFails(t) ==
  /\ task[t].pc \in {"saveAmounts", "incTrades", "createTrade", "savePrice"}
  /\ faults < MaxFaults
  /\ faults' = faults + 1
  /\ IF task[t].pc = "savePrice"
     THEN Commit(t, GridFailed(Machine(t)))
     ELSE Commit(t, LevelFrom(Machine(t), NextLevel(task[t].side, task[t].i)))
  /\ UNCHANGED <<probe, admin, db, trades, proc, grids, isRunning, timer, tickCount,
                 restarts>>

\* SIGINT / SIGTERM: bot.stop() and process.exit(0); then the program is
\* run again and a new GridTradingBot is constructed
Restart ==
  /\ proc = "running"
  /\ restarts < MaxRestarts
  /\ restarts' = restarts + 1
  /\ proc' = "new"
  /\ grids' = <<>>
  /\ isRunning' = FALSE
  /\ timer' = FALSE
  /\ gridStateMap' = NoStateMap
  /\ task' = [t \in TaskIds |-> IdleTask]
  /\ UNCHANGED <<probe, admin, db, trades, tickCount, faults, moveId>>

Next ==
  \/ Start
  \/ InitializeReturns
  \/ InitializeFails
  \/ TimerFires
  \/ Restart
  \/ \E t \in TaskIds :
       \/ PricesReturn(t)
       \/ PricesFail(t)
       \/ SwapFails(t)
       \/ SwapSucceeds(t)
       \/ SaveAmountsReturns(t)
       \/ IncTradesReturns(t)
       \/ CreateTradeReturns(t)
       \/ SavePriceReturns(t)
       \/ PersistenceFails(t)

Spec == Init /\ [][Next]_vars

\* ------------------------------------------- findGridLevelIndex on its own
\* the strictly increasing level tables with keys 0..n
LevelTables ==
  UNION {{tbl \in [0..n -> 1..MaxBoundary] : \A i \in 0..(n - 1) : tbl[i] < tbl[i + 1]}
         : n \in 1..MaxLevelCount}

\* the level tables with keys 0..n whose boundaries are not strictly
\* increasing although the first is below the last
UnsortedTables ==
  UNION {{tbl \in [0..n -> 1..MaxBoundary] :
            /\ tbl[0] < tbl[n]
            /\ \E i \in 0..(n - 1) : tbl[i] >= tbl[i + 1]}
         : n \in 2..MaxLevelCount}

\* a grid document with the given level table: gridCount is its last key,
\* the limits are its first and last boundary
TableGrid(tbl) ==
  LET n == Cardinality(DOMAIN tbl) - 1
  IN [GridDocs["g1"] EXCEPT !.lowerLimit = tbl[0], !.upperLimit = tbl[n],
                            !.gridCount = n, !.levels = tbl]

ProbePrices == 0..(MaxBoundary + 1)

LocateInit ==
  /\ BotInit
  /\ admin = NoAdmin
  /\ \E tbl \in LevelTables \cup UnsortedTables : \E price \in ProbePrices :
       probe = [grid |-> TableGrid(tbl), price |-> price, index |-> Null,
                called |-> FALSE]

\* this.findGridLevelIndex(grid, price)
CallFindGridLevelIndex ==
  /\ ~probe.called
  /\ probe' = [probe EXCEPT !.index = FindGridLevelIndex(probe.grid, probe.price),
                            !.called = TRUE]
  /\ UNCHANGED <<db, trades, proc, grids, isRunning, timer, gridStateMap, task,
                 tickCount, restarts, faults, moveId, admin>>

LocateNext == CallFindGridLevelIndex

LocateSpec == LocateInit /\ [][LocateNext]_vars

\* -------------------- updateGridPriceLimits and updateGridCurrentPrice
\* The two functions of database/grid.ts that write a grid's level table and
\* checkpoint, each a findById followed by a findByIdAndUpdate, called on
\* the stored grid g1 from outside the bot and interleaved at their awaits.
\* Prices of this part count tenths of 0.000001, so that toFixed(6) has
\* digits to round.

\* 0.000001 in the price unit of this part
MicroUnit == 10

\* Number(price.toFixed(6)) for a price >= 0: the nearest multiple of
\* 0.000001, the larger one on a tie
ToFixed6(x) == ((x + MicroUnit \div 2) \div MicroUnit) * MicroUnit

\* limits the caller may pass; their differences are multiples of every
\* grid count in GridCounts, so the step is exact
LimitValues == {204, 216, 900, 1000, 1200, 1300}

\* grid counts the caller may pass; Missing is the omitted argument
GridCounts == {Missing, 1, 2, 4}

\* last prices the stored grid may hold when the calls start
StoredPrices == {Null, 218, 1060}

\* prices the checkpoint write may be called with
CheckpointPrices == {202, 1060, 1250}

\* the stored grid the calls work on: g1 with the range 0.0001 .. 0.00012
EditDoc ==
  [GridDocs["g1"] EXCEPT !.lowerLimit = 1000, !.upperLimit = 1200,
                         !.levels = EvenLevels(1000, 1200, 4)]

EditInit ==
  /\ \E p \in StoredPrices :
       db = [g \in GridIds |->
               IF g # "g1" THEN GridDocs[g]
               ELSE IF p = Null THEN EditDoc ELSE Checkpointed(EditDoc, p)]
  /\ IdleBot
  /\ probe = NoProbe
  /\ admin = NoAdmin

\* `if (upperLimit <= lowerLimit) return null`
LimitsRejected(upperLimit, lowerLimit) == upperLimit <= lowerLimit

\* the grid count check left out
CountRejectedNever(newGridCount) == FALSE

\* `if (newGridCount < 2) return null`
CountRejected(newGridCount) == newGridCount < 2

\* the level table updateGridPriceLimits computes
RoundedLevels(lowerLimit, upperLimit, newGridCount) ==
  LET step == (upperLimit - lowerLimit) \div newGridCount
  IN [i \in 0..newGridCount |-> ToFixed6(lowerLimit + step * i)]

\* the currentGridIndex updateGridPriceLimits computes from the stored price
Reproject(levels, lowerLimit, upperLimit, newGridCount, currentPrice) ==
  IF currentPrice = Null \/ currentPrice = 0 THEN Null
  ELSE IF currentPrice <= lowerLimit THEN 0
  ELSE IF currentPrice >= upperLimit THEN newGridCount
  ELSE LET hits == {i \in 0..(newGridCount - 1) :
                      currentPrice >= levels[i] /\ currentPrice < levels[i + 1]}
       IN IF hits = {} THEN Null ELSE Min(hits)

\* updateData of updateGridPriceLimits; gridCount is Missing when the
\* argument was omitted
UpdateData(existingGrid, upperLimit, lowerLimit, gridCount) ==
  LET newGridCount == IF gridCount # Missing THEN gridCount ELSE existingGrid.gridCount
      levels == RoundedLevels(lowerLimit, upperLimit, newGridCount)
  IN [upperLimit |-> upperLimit, lowerLimit |-> lowerLimit, levels |-> levels,
      currentGridIndex |-> Reproject(levels, lowerLimit, upperLimit, newGridCount,
                                     existingGrid.currentPrice),
      gridCount |-> gridCount]

\* an update that writes the price anew with the limits
ApplyUpdateResetsPrice(doc, updateData) ==
  [doc EXCEPT !.upperLimit = updateData.upperLimit,
              !.lowerLimit = updateData.lowerLimit,
              !.levels = updateData.levels,
              !.currentGridIndex = updateData.currentGridIndex,
              !.currentPrice = Null,
              !.gridCount = IF updateData.gridCount = Missing THEN @
                            ELSE updateData.gridCount]

\* findByIdAndUpdate(id, { $set: updateData })
ApplyUpdate(doc, updateData) ==
  [doc EXCEPT !.upperLimit = updateData.upperLimit,
              !.lowerLimit = updateData.lowerLimit,
              !.levels = updateData.levels,
              !.currentGridIndex = updateData.currentGridIndex,
              !.gridCount = IF updateData.gridCount = Missing THEN @
                            ELSE updateData.gridCount]

botVars == <<trades, proc, grids, isRunning, timer, gridStateMap, task,
             tickCount, restarts, faults, moveId>>

\* updateGridPriceLimits is called: the limits are checked, findById is
\* awaited
UpdateGridPriceLimits(upperLimit, lowerLimit, gridCount) ==
  /\ admin.ul.pc \in {"idle", "done", "rejected"}
  /\ admin.ul.calls < MaxEdits
  /\ admin' = [admin EXCEPT !.ul =
                 [pc |-> IF LimitsRejected(upperLimit, lowerLimit)
                         THEN "rejected" ELSE "find",
                  calls |-> admin.ul.calls + 1,
                  upperLimit |-> upperLimit, lowerLimit |-> lowerLimit,
                  gridCount |-> gridCount, read |-> FALSE]]
  /\ UNCHANGED <<db, probe, botVars>>

\* findById returns the stored grid: the grid count is checked, the level
\* table and the index are computed, findByIdAndUpdate is awaited
PriceLimitsFound ==
  /\ admin.ul.pc = "find"
  /\ LET existingGrid == db["g1"]
         gridCount == admin.ul.gridCount
         newGridCount == IF gridCount # Missing THEN gridCount
                         ELSE existingGrid.gridCount
     IN admin' = [admin EXCEPT !.ul =
          IF CountRejected(newGridCount)
          THEN [admin.ul EXCEPT !.pc = "rejected"]
          ELSE [pc |-> "update", calls |-> admin.ul.calls,
                upperLimit |-> admin.ul.upperLimit,
                lowerLimit |-> admin.ul.lowerLimit,
                gridCount |-> gridCount, read |-> TRUE,
                newGridCount |-> newGridCount,
                price |-> existingGrid.currentPrice,
                updateData |-> UpdateData(existingGrid, admin.ul.upperLimit,
                                          admin.ul.lowerLimit, gridCount)]]
  /\ UNCHANGED <<db, probe, botVars>>

\* findByIdAndUpdate of updateGridPriceLimits returns
PriceLimitsUpdated ==
  /\ admin.ul.pc = "update"
  /\ db' = [db EXCEPT !["g1"] = ApplyUpdate(@, admin.ul.updateData)]
  /\ admin' = [admin EXCEPT !.ul.pc = "done"]
  /\ UNCHANGED <<probe, botVars>>

\* updateGridCurrentPrice is called: findById is awaited
UpdateGridCurrentPrice(currentPrice) ==
  /\ admin.ucp.pc \in {"idle", "done"}
  /\ admin.ucp.calls < MaxCheckpoints
  /\ admin' = [admin EXCEPT !.ucp =
                 [pc |-> "find", calls |-> admin.ucp.calls + 1,
                  currentPrice |-> currentPrice, currentGridIndex |-> Null,
                  applied |-> IF admin.ucp.calls = 0 THEN <<>>
                              ELSE admin.ucp.applied]]
  /\ UNCHANGED <<db, probe, botVars>>

\* findById returns the stored grid: the index is computed from its level
\* table, findByIdAndUpdate is awaited
CurrentPriceFound ==
  /\ admin.ucp.pc = "find"
  /\ admin' = [admin EXCEPT !.ucp.pc = "update",
                            !.ucp.currentGridIndex =
                               StoredIndex(db["g1"], admin.ucp.currentPrice)]
  /\ UNCHANGED <<db, probe, botVars>>

\* findByIdAndUpdate of updateGridCurrentPrice returns
CurrentPriceUpdated ==
  /\ admin.ucp.pc = "update"
  /\ db' = [db EXCEPT !["g1"].currentPrice = admin.ucp.currentPrice,
                      !["g1"].currentGridIndex = admin.ucp.currentGridIndex]
  /\ admin' = [admin EXCEPT !.ucp.pc = "done",
                            !.ucp.applied =
                               Append(@, [args |-> <<admin.ucp.currentPrice>>,
                                          before |-> db["g1"],
                                          after |-> db'["g1"]])]
  /\ UNCHANGED <<probe, botVars>>

EditNext ==
  \/ \E upperLimit, lowerLimit \in LimitValues : \E gridCount \in GridCounts :
       UpdateGridPriceLimits(upperLimit, lowerLimit, gridCount)
  \/ PriceLimitsFound
  \/ PriceLimitsUpdated
  \/ \E currentPrice \in CheckpointPrices : UpdateGridCurrentPrice(currentPrice)
  \/ CurrentPriceFound
  \/ CurrentPriceUpdated

EditSpec == EditInit /\ [][EditNext]_vars

\* ------------------------------------------- checkpoint writes on their own
\* updateGridCurrentPrice and updateGridTokenAmounts called up to
\* MaxCheckpoints times each on the stored grid, with no other writer.

\* balances the caller may pass
SourceAmounts == {0, SourceDen}

TargetAmounts == {15, 65}

\* a write that adds the amounts to the stored ones
ApplyAmountsAdded(doc, sourceTokenAmount, targetTokenAmount) ==
  [doc EXCEPT !.sourceTokenAmount = OrZero(@) + sourceTokenAmount,
              !.targetTokenAmount = OrZero(@) + targetTokenAmount]

\* findByIdAndUpdate(id, { $set: { sourceTokenAmount, targetTokenAmount } })
ApplyAmounts(doc, sourceTokenAmount, targetTokenAmount) ==
  [doc EXCEPT !.sourceTokenAmount = sourceTokenAmount,
              !.targetTokenAmount = targetTokenAmount]

\* updateGridTokenAmounts is called: findByIdAndUpdate of updateGrid is
\* awaited
UpdateGridTokenAmounts(sourceTokenAmount, targetTokenAmount) ==
  /\ admin.uta.pc \in {"idle", "done"}
  /\ admin.uta.calls < MaxCheckpoints
  /\ admin' = [admin EXCEPT !.uta =
                 [pc |-> "update", calls |-> admin.uta.calls + 1,
                  sourceTokenAmount |-> sourceTokenAmount,
                  targetTokenAmount |-> targetTokenAmount,
                  applied |-> IF admin.uta.calls = 0 THEN <<>>
                              ELSE admin.uta.applied]]
  /\ UNCHANGED <<db, probe, botVars>>

\* findByIdAndUpdate of updateGrid returns
TokenAmountsUpdated ==
  /\ admin.uta.pc = "update"
  /\ db' = [db EXCEPT !["g1"] = ApplyAmounts(@, admin.uta.sourceTokenAmount,
                                              admin.uta.targetTokenAmount)]
  /\ admin' = [admin EXCEPT !.uta.pc = "done",
                            !.uta.applied =
                               Append(@, [args |-> <<admin.uta.sourceTokenAmount,
                                                     admin.uta.targetTokenAmount>>,
                                          before |-> db["g1"],
                                          after |-> db'["g1"]])]
  /\ UNCHANGED <<probe, botVars>>

ReplayNext ==
  \/ \E currentPrice \in CheckpointPrices : UpdateGridCurrentPrice(currentPrice)
  \/ CurrentPriceFound
  \/ CurrentPriceUpdated
  \/ \E sourceTokenAmount \in SourceAmounts : \E targetTokenAmount \in TargetAmounts :
       UpdateGridTokenAmounts(sourceTokenAmount, targetTokenAmount)
  \/ TokenAmountsUpdated

ReplaySpec == EditInit /\ [][ReplayNext]_vars

\* ------------------------------------------------------------ createGrid
\* createGrid called once on an empty collection, with every combination of
\* limits, grid count and level table below.  Prices are whole numbers; the
\* differences of the limits are multiples of every grid count.

\* limits the caller may pass
CreateLimits == {100, 108, 120}

\* grid counts the caller may pass
CreateCounts == {1, 2, 4}

\* the level table left out of gridData
NoLevels == [i \in {} |-> 0]

\* level tables the caller may pass: none, an empty one, and tables with
\* increasing, decreasing and repeated boundaries
CustomLevels ==
  {NoLevels,
   [i \in 0..2 |-> 100 + 10 * i],
   [i \in 0..2 |-> IF i = 1 THEN 120 ELSE 100 + 5 * i],
   [i \in 0..2 |-> IF i = 0 THEN 100 ELSE 120]}

\* the level table createGrid computes when none is given
ComputedLevels(lowerLimit, upperLimit, gridCount) ==
  LET step == (upperLimit - lowerLimit) \div gridCount
  IN [i \in 0..gridCount |-> lowerLimit + step * i]

\* the document Grid.create stores for gridData
NewGrid(upperLimit, lowerLimit, gridCount, levels) ==
  [GridDocs["g1"] EXCEPT
     !.id = "n1", !.upperLimit = upperLimit, !.lowerLimit = lowerLimit,
     !.gridCount = gridCount,
     !.levels = IF DOMAIN levels = {}
                THEN ComputedLevels(lowerLimit, upperLimit, gridCount)
                ELSE levels,
     !.currentPrice = Null, !.currentGridIndex = Null,
     !.sourceTokenAmount = Null, !.targetTokenAmount = Null]

CreateInit ==
  /\ db = [g \in {} |-> GridDocs["g1"]]
  /\ IdleBot
  /\ probe = NoProbe
  /\ admin = NoAdmin

\* createGrid is called: the level table is computed if none was given,
\* Grid.create is awaited
CreateGrid(upperLimit, lowerLimit, gridCount, levels) ==
  /\ admin.create.pc = "idle"
  /\ admin' = [admin EXCEPT !.create =
                 [pc |-> "create", calls |-> 1,
                  upperLimit |-> upperLimit, lowerLimit |-> lowerLimit,
                  gridCount |-> gridCount, levels |-> levels,
                  grid |-> NewGrid(upperLimit, lowerLimit, gridCount, levels)]]
  /\ UNCHANGED <<db, probe, botVars>>

\* Grid.create returns: the document is stored and returned
GridCreated ==
  /\ admin.create.pc = "create"
  /\ db' = [g \in DOMAIN db \cup {admin.create.grid.id} |->
             IF g = admin.create.grid.id THEN admin.create.grid ELSE db[g]]
  /\ admin' = [admin EXCEPT !.create.pc = "done"]
  /\ UNCHANGED <<probe, botVars>>

CreateNext ==
  \/ \E upperLimit, lowerLimit \in CreateLimits : \E gridCount \in CreateCounts :
       \E levels \in CustomLevels :
         CreateGrid(upperLimit, lowerLimit, gridCount, levels)
  \/ GridCreated

CreateSpec == CreateInit /\ [][CreateNext]_vars

\* ---------------------------------------------------------- quoteAndSwap
\* One call of quoteAndSwap with each request the bot can build, under each
\* setting of SOLANA_PRIVATE_KEY and every outcome of the calls it awaits.
\* sent tells whether sendRawTransaction handed the transaction to the
\* network; it is not a value of the program.

\* the requests executeBuyTrade and executeSellTrade build for the grids
SwapRequests ==
  UNION {{BuyRequest(GridDocs[g], i) : i \in 1..GridDocs[g].gridCount}
         \cup {SellRequest(GridDocs[g], i) : i \in 1..GridDocs[g].gridCount}
         : g \in GridIds}

\* process.env.SOLANA_PRIVATE_KEY: not set, not a base58 secret key, a key
PrivateKeys == {"unset", "malformed", "valid"}

\* quote.outAmount of the quote response; Missing when it has none
OutAmounts == {Missing, 7}

\* executeResponse.simulationError
SimulationErrors == {"null", "InsufficientFunds"}

\* confirmation.value.err
ConfirmationErrors == {"null", "InstructionError"}

\* a signature or an error message that is not there
Absent == "absent"

\* a SwapResult; absent fields are Absent, an absent outputAmount is Null
SwapResult(success, signature, outputAmount, error) ==
  [success |-> success, signature |-> signature, outputAmount |-> outputAmount,
   error |-> error]

\* a return statement of quoteAndSwap
Returns(call, result) == [call EXCEPT !.pc = "returned", !.result = result]

\* a catch block that throws the error on
CatchRethrows(call, errorMessage) == [call EXCEPT !.pc = "raised"]

\* the catch block of quoteAndSwap
Catch(call, errorMessage) ==
  Returns(call, SwapResult(FALSE, Absent, Null, errorMessage))

\* `if (confirmation.value.err) return { success: false, signature, ... }`
ConfirmFailed(call, err) ==
  Returns(call, SwapResult(FALSE, call.signature, Null, err))

SwapInit ==
  /\ BotInit
  /\ probe = NoProbe
  /\ \E key \in PrivateKeys :
       admin = [NoAdmin EXCEPT !.swap = [pc |-> "idle", calls |-> 0, key |-> key]]

swapFrame == <<db, probe, botVars>>

\* quoteAndSwap is called: client.getQuote is awaited
QuoteAndSwap(request) ==
  /\ admin.swap.pc = "idle"
  /\ admin' = [admin EXCEPT !.swap =
                 [pc |-> "quote", calls |-> 1, key |-> admin.swap.key,
                  request |-> request, outAmount |-> Null, sent |-> FALSE,
                  signature |-> Absent, confirmation |-> "none",
                  result |-> SwapResult(FALSE, Absent, Null, Absent)]]
  /\ UNCHANGED swapFrame

\* getQuote returns: outAmount and the private key are tested, the wallet is
\* made, client.executeSwap is awaited
QuoteReturns(outAmount) ==
  /\ admin.swap.pc = "quote"
  /\ LET call == [admin.swap EXCEPT !.outAmount = outAmount]
     IN admin' = [admin EXCEPT !.swap =
          IF outAmount = Missing
          THEN Returns(call, SwapResult(FALSE, Absent, Null, "No outAmount"))
          ELSE IF call.key = "unset"
          THEN Returns(call, SwapResult(FALSE, Absent, Null, "Please provide your private key"))
          ELSE IF call.key = "malformed"
          THEN Catch(call, "bad secret key")
          ELSE [call EXCEPT !.pc = "build"]]
  /\ UNCHANGED swapFrame

\* getQuote raises
QuoteRaises ==
  /\ admin.swap.pc = "quote"
  /\ admin' = [admin EXCEPT !.swap = Catch(@, "HTTP error (quote)")]
  /\ UNCHANGED swapFrame

\* executeSwap returns: simulationError is tested, the transaction is
\* deserialized (wellFormed tells whether that succeeds), signed and
\* serialized, sendRawTransaction is awaited
SwapBuilt(simulationError, wellFormed) ==
  /\ admin.swap.pc = "build"
  /\ admin' = [admin EXCEPT !.swap =
       IF simulationError # "null"
       THEN Returns(@, SwapResult(FALSE, Absent, Null, simulationError))
       ELSE IF ~wellFormed THEN Catch(@, "deserialize failed")
       ELSE [@ EXCEPT !.pc = "send"]]
  /\ UNCHANGED swapFrame

\* executeSwap raises
BuildRaises ==
  /\ admin.swap.pc = "build"
  /\ admin' = [admin EXCEPT !.swap = Catch(@, "HTTP error (swap)")]
  /\ UNCHANGED swapFrame

\* sendRawTransaction returns the signature: confirmTransaction is awaited
TransactionSent ==
  /\ admin.swap.pc = "send"
  /\ admin' = [admin EXCEPT !.swap.pc = "confirm", !.swap.sent = TRUE,
                            !.swap.signature = "sig"]
  /\ UNCHANGED swapFrame

\* sendRawTransaction raises, the transaction not handed on
SendRaises ==
  /\ admin.swap.pc = "send"
  /\ admin' = [admin EXCEPT !.swap = Catch(@, "send failed")]
  /\ UNCHANGED swapFrame

\* confirmTransaction returns
TransactionConfirmed(err) ==
  /\ admin.swap.pc = "confirm"
  /\ LET call == [admin.swap EXCEPT !.confirmation = err]
     IN admin' = [admin EXCEPT !.swap =
          IF err # "null" THEN ConfirmFailed(call, err)
          ELSE Returns(call, SwapResult(TRUE, call.signature, call.outAmount, Absent))]
  /\ UNCHANGED swapFrame

\* confirmTransaction raises
ConfirmRaises ==
  /\ admin.swap.pc = "confirm"
  /\ admin' = [admin EXCEPT !.swap =
                 Catch([@ EXCEPT !.confirmation = "raised"], "confirm failed")]
  /\ UNCHANGED swapFrame

SwapNext ==
  \/ \E request \in SwapRequests : QuoteAndSwap(request)
  \/ \E outAmount \in OutAmounts : QuoteReturns(outAmount)
  \/ QuoteRaises
  \/ \E simulationError \in SimulationErrors : \E wellFormed \in BOOLEAN :
       SwapBuilt(simulationError, wellFormed)
  \/ BuildRaises
  \/ TransactionSent
  \/ SendRaises
  \/ \E err \in ConfirmationErrors : TransactionConfirmed(err)
  \/ ConfirmRaises

SwapSpec == SwapInit /\ [][SwapNext]_vars

\* ------------------------------------------------------- start and stop
\* One GridTradingBot on which start() is called up to MaxStarts times and
\* stop() up to MaxStops times, in any order, a start() also while an
\* earlier one is awaiting initialize.  intervals is the set of intervals
\* set and not cleared, named by the call that set them;
\* priceMonitorInterval is the handle the bot keeps (0: null); lastCall and
\* processed (the ticks that went past the test of isRunning, each with the
\* call that was the last at that moment) are not values of the program.

StartIds == 1..MaxStarts

LifeInit ==
  /\ BotInit
  /\ probe = NoProbe
  /\ admin = [NoAdmin EXCEPT !.life =
                [pc |-> [c \in StartIds |-> "idle"], calls |-> 0, stops |-> 0,
                 intervals |-> {}, priceMonitorInterval |-> 0,
                 lastCall |-> "none", processed |-> <<>>]]

lifeFrame == <<db, trades, proc, task, restarts, faults, probe>>

\* this.stop() applied to the record of the bot
Stopped(life) ==
  [life EXCEPT !.intervals = @ \ {life.priceMonitorInterval},
               !.priceMonitorInterval = 0]

\* start() is called: it returns when isRunning is set, else initialize is
\* awaited
StartCalled(c) ==
  /\ admin.life.pc[c] = "idle"
  /\ \A b \in StartIds : b < c => admin.life.pc[b] # "idle"
  /\ admin' = [admin EXCEPT !.life.pc[c] = IF isRunning THEN "done" ELSE "initialize",
                            !.life.calls = @ + 1,
                            !.life.lastCall = "start"]
  /\ UNCHANGED <<isRunning, grids, timer, gridStateMap, moveId, tickCount, lifeFrame>>

\* getAllGrids returns the documents: initialize seeds gridStateMap, start
\* sets isRunning and the interval
Initialized(c) ==
  /\ admin.life.pc[c] = "initialize"
  /\ grids' = [k \in 1..Len(LoadOrder) |-> db[LoadOrder[k]]]
  /\ gridStateMap' = [g \in GridIds |-> SeedState(db[g])]
  /\ moveId' = [g \in GridIds |-> moveId[g] + 1]
  /\ isRunning' = TRUE
  /\ timer' = TRUE
  /\ admin' = [admin EXCEPT !.life.pc[c] = "done",
                            !.life.intervals = @ \cup {c},
                            !.life.priceMonitorInterval = c]
  /\ UNCHANGED <<tickCount, lifeFrame>>

\* getGrids raises: getAllGrids returns [], start sets isRunning and the
\* interval with no grid loaded
InitializedEmpty(c) ==
  /\ admin.life.pc[c] = "initialize"
  /\ grids' = <<>>
  /\ isRunning' = TRUE
  /\ timer' = TRUE
  /\ admin' = [admin EXCEPT !.life.pc[c] = "done",
                            !.life.intervals = @ \cup {c},
                            !.life.priceMonitorInterval = c]
  /\ UNCHANGED <<gridStateMap, moveId, tickCount, lifeFrame>>

\* stop() is called
Stop ==
  /\ admin.life.stops < MaxStops
  /\ isRunning' = FALSE
  /\ admin' = [admin EXCEPT !.life = [Stopped(@) EXCEPT !.stops = @ + 1,
                                                        !.lastCall = "stop"]]
  /\ timer' = (Stopped(admin.life).intervals # {})
  /\ UNCHANGED <<grids, gridStateMap, moveId, tickCount, lifeFrame>>

\* an interval fires: monitorPricesAndExecuteTrades returns at its first
\* line, or goes on to fetch the prices and process the grids
IntervalFires(i) ==
  /\ i \in admin.life.intervals
  /\ tickCount < MaxTicks
  /\ tickCount' = tickCount + 1
  /\ admin' = [admin EXCEPT !.life.processed =
                 IF ~isRunning \/ Len(grids) = 0 THEN @
                 ELSE Append(@, [interval |-> i, lastCall |-> admin.life.lastCall])]
  /\ UNCHANGED <<isRunning, grids, timer, gridStateMap, moveId, lifeFrame>>

LifeNext ==
  \/ \E c \in StartIds : StartCalled(c)
  \/ \E c \in StartIds : Initialized(c)
  \/ \E c \in StartIds : InitializedEmpty(c)
  \/ Stop
  \/ \E i \in StartIds : IntervalFires(i)

LifeSpec == LifeInit /\ [][LifeNext]_vars

\* ------------------------------------------------------------ properties
InFlightPcs == {"swap", "saveAmounts", "incTrades", "createTrade", "savePrice"}

\* task t is inside processGrid of grid g, suspended at an await
InProcessGrid(t, g) ==
  /\ task[t].pc \in InFlightPcs
  /\ grids[task[t].gi].id = g

\* the executions task t attempted for grid g, in order
GridLog(t, g) == SelectSeq(task[t].log, LAMBDA a : a.grid = g)

\* the crossings of a sequence of attempts
Crossings(log) == [j \in 1..Len(log) |-> <<log[j].side, log[j].level>>]

\* the position of the first failed attempt of a log, 0 if none failed
FirstFailure(log) ==
  IF \E j \in 1..Len(log) : ~log[j].ok
  THEN Min({j \in 1..Len(log) : ~log[j].ok})
  ELSE 0

\* locate of the specification, section 4.1
Locate(table, levelCount, price) ==
  IF price <= table[0] THEN 0
  ELSE IF price >= table[levelCount] THEN levelCount
  ELSE CHOOSE i \in 0..(levelCount - 1) : table[i] <= price /\ price < table[i + 1]

\* C1: when the k-th execution of a tick fails, the grid's level pointer at
\* the end of that tick's processGrid has advanced exactly k-1 levels from
\* the level the tick started from, toward the observed level.
C1_PartialProgress ==
  \A t \in TaskIds : \A g \in GridIds :
    LET ob == task[t].obs[g]
        k == FirstFailure(GridLog(t, g))
    IN (ob.ended /\ ob.prev # Null /\ k > 0)
       => ob.endLevel = IF ob.new > ob.prev THEN ob.prev + (k - 1)
                                            ELSE ob.prev - (k - 1)

\* C2: after a failed execution a tick attempts no further execution for
\* that grid: a failed attempt is the last of its grid's log, and no swap
\* of that grid is in flight behind it.
C2_StopAfterFailure ==
  \A t \in TaskIds : \A g \in GridIds :
    LET log == GridLog(t, g)
        k == FirstFailure(log)
    IN k > 0 => /\ k = Len(log)
                /\ ~(task[t].pc = "swap" /\ InProcessGrid(t, g))

\* C3: when a tick had a failed crossing and the tick that follows it (one
\* that observes the grid after the first has finished) sees a price of the
\* same level, the following tick attempts the failed crossing and every
\* crossing after it, in the same order.
C3_FailedCrossingRetried ==
  \A t \in TaskIds : \A g \in GridIds :
    (t + 1) \in TaskIds =>
      LET ob == task[t].obs[g]
          nx == task[t + 1].obs[g]
          log == GridLog(t, g)
          k == FirstFailure(log)
      IN (ob.ended /\ ob.prev # Null /\ k > 0 /\ nx.ended /\ t \in nx.after
          /\ nx.new = ob.new)
         => Crossings(GridLog(t + 1, g)) = SubSeq(Crossings(log), k, Len(log))

\* the successful executions of all tasks, as <<task, position>>
Successes == {x \in TaskIds \X (1..(4 * MaxTicks)) :
                x[2] <= Len(task[x[1]].log) /\ task[x[1]].log[x[2]].ok}

SameCrossing(a, b) ==
  a.grid = b.grid /\ a.side = b.side /\ a.level = b.level /\ a.move = b.move

\* C4: each crossing of a price move is traded at most once: no two
\* successful executions, and no two trade records, are for the same grid,
\* direction and level of the same move of the level pointer.
C4_AtMostOnce ==
  /\ \A x, y \in Successes :
       x # y => ~SameCrossing(task[x[1]].log[x[2]], task[y[1]].log[y[2]])
  /\ \A i, j \in 1..Len(trades) :
       i # j => ~(/\ trades[i].gridId = trades[j].gridId
                  /\ trades[i].side = trades[j].side
                  /\ trades[i].gridLevel = trades[j].gridLevel
                  /\ trades[i].move = trades[j].move)

\* C5: at most one task is inside processGrid of a grid at any time.
C5_OneInFlight ==
  \A t, u \in TaskIds : \A g \in GridIds :
    t # u => ~(InProcessGrid(t, g) /\ InProcessGrid(u, g))

\* the SELL crossings of the levels prev+1 .. new, ascending
SellsExpected(prev, new) == [j \in 1..(new - prev) |-> <<"SELL", prev + j>>]

\* the BUY crossings of the levels prev-1 .. new, descending
BuysExpected(prev, new) == [j \in 1..(prev - new) |-> <<"BUY", prev - j>>]

IsPrefix(a, b) == Len(a) <= Len(b) /\ a = SubSeq(b, 1, Len(a))

\* C6: a tick of a tracking grid whose price locates above the level
\* pointer attempts SELL at the levels prev+1 .. new in ascending order and
\* nothing else: its attempts are always a prefix of that sequence, and the
\* whole sequence once processGrid has returned.
C6_SellsAscending ==
  \A t \in TaskIds : \A g \in GridIds :
    LET ob == task[t].obs[g]
    IN (ob.seen /\ ob.prev # Null /\ ob.new > ob.prev)
       => /\ IsPrefix(Crossings(GridLog(t, g)), SellsExpected(ob.prev, ob.new))
          /\ ob.ended => Crossings(GridLog(t, g)) = SellsExpected(ob.prev, ob.new)

C6_Witness ==
  \E t \in TaskIds :
    LET ob == task[t].obs["g1"]
    IN /\ ob.ended /\ ob.prev = 1 /\ ob.new = 4
       /\ Crossings(GridLog(t, "g1")) = <<<<"SELL", 2>>, <<"SELL", 3>>, <<"SELL", 4>>>>

\* C7: a tick of a tracking grid whose price locates below the level
\* pointer attempts BUY at the levels prev-1 down to new, in descending
\* order, and nothing else.
C7_BuysDescending ==
  \A t \in TaskIds : \A g \in GridIds :
    LET ob == task[t].obs[g]
    IN (ob.ended /\ ob.prev # Null /\ ob.new < ob.prev)
       => Crossings(GridLog(t, g)) = BuysExpected(ob.prev, ob.new)

\* the step in which task t makes its observation of grid g
Observes(t, g) == ~task[t].obs[g].seen /\ task'[t].obs[g].seen

\* C8: a tick that finds the level pointer of a grid unset records the
\* level of the observed price and the price in memory in that step, and
\* attempts no execution for the grid.
C8_FirstObservation ==
  /\ [][\A t \in TaskIds : \A g \in GridIds :
          (Observes(t, g) /\ task'[t].obs[g].prev = Null)
          => /\ gridStateMap'[g].currentGridIndex =
                  Locate(db[g].levels, db[g].gridCount, task'[t].obs[g].price)
             /\ gridStateMap'[g].lastCheckedPrice = task'[t].obs[g].price
             /\ task'[t].pc = "savePrice"]_vars
  /\ [](\A t \in TaskIds : \A g \in GridIds :
          (task[t].obs[g].seen /\ task[t].obs[g].prev = Null)
          => /\ GridLog(t, g) = <<>>
             /\ ~(task[t].pc = "swap" /\ InProcessGrid(t, g)))

C8_Witness ==
  \E t \in TaskIds :
    LET ob == task[t].obs["g1"]
    IN /\ ob.ended /\ ob.prev = Null /\ ob.new = 4
       /\ gridStateMap["g1"].currentGridIndex = 4
       /\ gridStateMap["g1"].lastCheckedPrice = 125

\* C9: right after initialize, the in-memory level and price of every grid
\* with a persisted checkpoint are the persisted ones.
C9_SeededFromCheckpoint ==
  (proc = "running" /\ Len(grids) > 0 /\ \A t \in TaskIds : task[t].pc = "idle")
  => \A g \in GridIds :
       (db[g].currentGridIndex # Null /\ db[g].currentPrice # Null)
       => /\ gridStateMap[g].currentGridIndex = db[g].currentGridIndex
          /\ gridStateMap[g].lastCheckedPrice = db[g].currentPrice

\* C10: when no tick is running and no persistence call has failed, the
\* persisted checkpoint of every grid that a tick observed equals the
\* in-memory level and price.
C10_CheckpointMirrorsMemory ==
  (proc = "running" /\ faults = 0 /\ \A t \in TaskIds : task[t].pc \in {"idle", "done"})
  => \A g \in GridIds :
       (\E t \in TaskIds : task[t].obs[g].seen)
       => /\ db[g].currentGridIndex = gridStateMap[g].currentGridIndex
          /\ db[g].currentPrice = gridStateMap[g].lastCheckedPrice

PriceToken(g) == GridDocs[g].targetTokenId

\* a step inside one run of the process, with grid g tracked
RunningStep(g) ==
  proc = "running" /\ proc' = "running" /\ g \in DOMAIN gridStateMap

\* the step changes what is kept of grid g in memory, in the database or in
\* the trade history
Touches(g) ==
  \/ gridStateMap'[g] # gridStateMap[g]
  \/ db'[g] # db[g]
  \/ (trades' # trades /\ trades'[Len(trades')].gridId = g)

\* C12: a tick whose price response has no price for a grid's token skips
\* the grid: the step that receives the response leaves the grid's level,
\* price, inventory, counters, checkpoint and trades as they are, the tick
\* never observes the grid nor attempts an execution for it, and every step
\* that does change the grid belongs to a tick that has a price for it.
C12_MissingPriceSkips ==
  /\ [][\A g \in GridIds :
          RunningStep(g) =>
            /\ \A t \in TaskIds :
                 (task[t].pc = "fetch" /\ task'[t].fetch = "ok"
                  /\ task'[t].prices[PriceToken(g)] = Missing)
                 => ~Touches(g)
            /\ Touches(g) =>
                 \E u \in TaskIds : /\ task'[u] # task[u]
                                     /\ task'[u].fetch = "ok"
                                     /\ task'[u].prices[PriceToken(g)] # Missing]_vars
  /\ [](\A t \in TaskIds : \A g \in GridIds :
          (task[t].fetch = "ok" /\ task[t].prices[PriceToken(g)] = Missing)
          => /\ GridLog(t, g) = <<>>
             /\ ~task[t].obs[g].seen
             /\ ~InProcessGrid(t, g))

\* a tick without a price for the token of g1 finished while g1 was being
\* tracked, after it processed g2
C12_Witness ==
  \E t \in TaskIds :
    /\ task[t].pc = "done" /\ task[t].fetch = "ok"
    /\ task[t].prices["USDC"] = Missing
    /\ task[t].obs["g2"].ended
    /\ gridStateMap["g1"].currentGridIndex # Null

\* C13: a tick that obtained prices processes every grid that has a price,
\* whatever failed on the way: when the tick is at its k-th grid, every
\* earlier grid with a price has been processed to its end, and a finished
\* tick has passed all grids.
C13_GridsIsolated ==
  \A t \in TaskIds :
    task[t].fetch = "ok" =>
      /\ task[t].pc = "done" => task[t].gi = Len(grids) + 1
      /\ \A k \in 1..Len(grids) :
           (k < task[t].gi /\ ~NoPrice(task[t].prices[grids[k].targetTokenId]))
           => task[t].obs[grids[k].id].ended

\* the checkpoint write of g1 raised in a tick, and the tick went on to
\* process g2
C13_Witness ==
  \E t \in TaskIds :
    /\ task[t].pc = "done" /\ faults = 1
    /\ \A u \in TaskIds : FirstFailure(task[u].log) = 0
    /\ task[t].obs["g1"].ended /\ db["g1"].currentPrice = Null
    /\ task[t].obs["g2"].ended

\* C14: a tick whose price fetch fails attempts nothing and changes
\* nothing: the step that receives the failure leaves the in-memory grid
\* state, the stored documents and the trade history as they are, and the
\* tick is over, with no grid observed and no execution attempted.
C14_FetchFailureNoEffect ==
  /\ [][\A t \in TaskIds :
          (task[t].pc = "fetch" /\ task'[t].fetch = "failed")
          => /\ gridStateMap' = gridStateMap
             /\ db' = db
             /\ trades' = trades]_vars
  /\ [](\A t \in TaskIds :
          task[t].fetch = "failed"
          => /\ task[t].pc = "done"
             /\ task[t].log = <<>>
             /\ \A g \in GridIds : ~task[t].obs[g].seen)

\* the price fetch of a tick failed while g1 was tracked at the level an
\* earlier tick had recorded
C14_Witness ==
  \E t, u \in TaskIds :
    /\ task[t].fetch = "failed"
    /\ task[u].obs["g1"].ended
    /\ gridStateMap["g1"].currentGridIndex = task[u].obs["g1"].endLevel
    /\ gridStateMap["g1"].currentGridIndex # Null

\* C15: while the process runs a grid's level pointer, once set, is never
\* unset, and only the first observation of a grid is handled as a first
\* observation: a tick takes the first-check branch exactly when it finds
\* the pointer unset, and every other tick of the run that observes the
\* grid does so after it and finds the pointer set.
C15_TrackingIsAbsorbing ==
  /\ [][\A g \in GridIds :
          (RunningStep(g) /\ gridStateMap[g].currentGridIndex # Null)
          => gridStateMap'[g].currentGridIndex # Null]_vars
  /\ [](\A t \in TaskIds : \A g \in GridIds :
          LET ob == task[t].obs[g]
          IN ob.seen =>
               /\ ob.first <=> ob.prev = Null
               /\ ob.first =>
                    /\ gridStateMap[g].currentGridIndex # Null
                    /\ \A u \in TaskIds \ {t} :
                         task[u].obs[g].seen
                         => /\ task[u].obs[g].move > ob.move
                            /\ ~task[u].obs[g].first)

\* the first observation put g1 at level 0 and a later tick of the same run
\* found it there, tracking
C15_Witness ==
  \E t, u \in TaskIds :
    /\ task[t].obs["g1"].first /\ task[t].obs["g1"].new = 0
    /\ task[u].obs["g1"].seen /\ task[u].obs["g1"].prev = 0
    /\ ~task[u].obs["g1"].first

\* all attempts of all ticks, finished or in flight
Attempts ==
  UNION {{task[t].log[j] : j \in 1..Len(task[t].log)} : t \in TaskIds}

\* the requests handed to quoteAndSwap and not yet answered
InFlightRequests == {task[t].request : t \in {u \in TaskIds : task[u].pc = "swap"}}

\* every request handed to quoteAndSwap by a tick of this run
Requests == {a.request : a \in Attempts} \cup InFlightRequests

\* quantityInvested / levelCount of the grid's configuration
QuantityPerLevel(g) == GridDocs[g].quantityInvested \div GridDocs[g].gridCount

\* C16: every BUY request sent to the venue has the grid's target-side
\* token as input, its source-side token as output and quantityPerLevel, in
\* target-side units, as input amount; every BUY trade record names the
\* same tokens and that input amount.
C16_BuyRequest ==
  /\ \A r \in Requests :
       r.side = "BUY" =>
         /\ r.inputMint = GridDocs[r.gridId].targetTokenId
         /\ r.outputMint = GridDocs[r.gridId].sourceTokenId
         /\ r.amount = QuantityPerLevel(r.gridId) * UnitScale
  /\ \A j \in 1..Len(trades) :
       trades[j].side = "BUY" =>
         /\ trades[j].inputTokenId = GridDocs[trades[j].gridId].targetTokenId
         /\ trades[j].outputTokenId = GridDocs[trades[j].gridId].sourceTokenId
         /\ trades[j].inputAmount = QuantityPerLevel(trades[j].gridId)

\* C17: every SELL request sent to the venue for level L has the grid's
\* source-side token as input, its target-side token as output and
\* quantityPerLevel / table[L], in millionths of a source-side unit rounded
\* down, as input amount.
C17_SellRequest ==
  \A r \in Requests :
    r.side = "SELL" =>
      /\ r.inputMint = GridDocs[r.gridId].sourceTokenId
      /\ r.outputMint = GridDocs[r.gridId].targetTokenId
      /\ r.amount = (QuantityPerLevel(r.gridId) * UnitScale)
                       \div GridDocs[r.gridId].levels[r.level]

\* a SELL of g1 at level 2 (boundary 110) was requested: 25 / 110 of a
\* source token
C17_Witness ==
  \E r \in Requests :
    /\ r.side = "SELL" /\ r.gridId = "g1" /\ r.level = 2
    /\ r.inputMint = "SOL" /\ r.outputMint = "USDC"
    /\ r.amount = 227272

\* the boundary one level below L, the lower limit when there is none
ReferenceBuyPrice(g, L) ==
  IF L > 0 THEN GridDocs[g].levels[L - 1] ELSE GridDocs[g].lowerLimit

\* C18: the profit of every SELL trade record at level L is
\* (table[L] - table[L-1]) * inputAmount, the lower limit standing in for
\* table[L-1] when L has no level below.
C18_SellProfit ==
  \A j \in 1..Len(trades) :
    LET tr == trades[j]
    IN tr.side = "SELL" =>
         tr.profit = (GridDocs[tr.gridId].levels[tr.gridLevel]
                        - ReferenceBuyPrice(tr.gridId, tr.gridLevel)) * tr.inputAmount

\* a SELL of g1 at level 3 was recorded: 25 / 115 of a source token sold
\* 5 above the boundary below
C18_Witness ==
  \E j \in 1..Len(trades) :
    /\ trades[j].side = "SELL" /\ trades[j].gridId = "g1"
    /\ trades[j].gridLevel = 3
    /\ trades[j].inputAmount * 115 = 25 * SourceDen
    /\ trades[j].profit = 5 * trades[j].inputAmount

\* C19: no BUY trade record has a profit and every SELL trade record has
\* one.
C19_ProfitOnlyOnSell ==
  \A j \in 1..Len(trades) :
    /\ trades[j].side = "BUY" => trades[j].profit = Null
    /\ trades[j].side = "SELL" => trades[j].profit # Null /\ trades[j].profit >= 0

\* the history holds a BUY record without profit and a SELL record with one
C19_Witness ==
  \E j, k \in 1..Len(trades) :
    /\ trades[j].side = "BUY" /\ trades[j].profit = Null
    /\ trades[k].side = "SELL" /\ trades[k].profit > 0

\* the grid's configuration with some other inventory, counters and
\* checkpoint
WithHoldings(g, x) ==
  [GridDocs[g] EXCEPT !.sourceTokenAmount = x * SourceDen,
                      !.targetTokenAmount = x * 100,
                      !.totalBuys = x, !.totalSells = x,
                      !.currentPrice = x, !.currentGridIndex = x]

\* the request the trade functions build for a grid document
Build(grid, side, levelIndex) ==
  IF side = "SELL" THEN SellRequest(grid, levelIndex) ELSE BuyRequest(grid, levelIndex)

\* C20: the request built for a crossing depends on the grid's
\* configuration, the level and the direction only: two requests of a run
\* for the same grid, direction and level are identical, and each is the
\* request built from the configuration with any other inventory,
\* counters and checkpoint.
C20_BuildDeterministic ==
  /\ \A r1, r2 \in Requests :
       (r1.gridId = r2.gridId /\ r1.side = r2.side /\ r1.level = r2.level)
       => r1 = r2
  /\ \A r \in Requests : \A x \in 0..3 :
       r = Build(WithHoldings(r.gridId, x), r.side, r.level)

\* two ticks built the SELL request of g1 at level 2, one of them with
\* success, and a trade has been recorded
C20_Witness ==
  /\ \E t, u \in TaskIds :
       /\ t # u
       /\ \E j \in 1..Len(task[t].log) : \E k \in 1..Len(task[u].log) :
            /\ task[t].log[j].ok
            /\ task[t].log[j].grid = "g1" /\ task[u].log[k].grid = "g1"
            /\ task[t].log[j].side = "SELL" /\ task[u].log[k].side = "SELL"
            /\ task[t].log[j].level = 2 /\ task[u].log[k].level = 2
            /\ task[t].log[j].request = task[u].log[k].request
  /\ Len(trades) > 0

\* the configuration fields of a stored grid that updateGridPriceLimits
\* writes
Configured(doc) ==
  <<doc.lowerLimit, doc.upperLimit, doc.levels, doc.gridCount, doc.currentGridIndex>>

\* the arguments of the running or last call of updateGridPriceLimits are
\* valid for the grid count n
ValidEdit(n) == admin.ul.upperLimit > admin.ul.lowerLimit /\ n >= 2

\* C21: a call of updateGridPriceLimits with upperLimit <= lowerLimit or
\* with a resulting level count below 2 is rejected and writes nothing: the
\* step that rejects it leaves the stored grids as they are, a call with
\* such arguments never reaches its write, and every step that changes the
\* limits, the level table or the level count of the stored grid is the
\* write of a call with valid arguments.
C21_RejectedEditWritesNothing ==
  /\ [][(admin.ul.pc # "rejected" /\ admin'.ul.pc = "rejected") => db' = db]_vars
  /\ [][(<<db'["g1"].lowerLimit, db'["g1"].upperLimit, db'["g1"].levels,
           db'["g1"].gridCount>>
         # <<db["g1"].lowerLimit, db["g1"].upperLimit, db["g1"].levels,
             db["g1"].gridCount>>)
         => (admin.ul.pc = "update" /\ ValidEdit(admin.ul.newGridCount))]_vars
  /\ [](admin.ul.pc \in {"update", "done"} => ValidEdit(admin.ul.newGridCount))
  /\ [](admin.ul.pc = "rejected" =>
          \/ admin.ul.upperLimit <= admin.ul.lowerLimit
          \/ (admin.ul.gridCount # Missing /\ admin.ul.gridCount < 2)
          \/ (admin.ul.gridCount = Missing /\ db["g1"].gridCount < 2))

\* a call with valid limits and grid count 1 was rejected and the stored
\* grid still has its range and table
C21_Witness ==
  /\ admin.ul.pc = "rejected"
  /\ admin.ul.upperLimit > admin.ul.lowerLimit /\ admin.ul.gridCount = 1
  /\ Configured(db["g1"]) = Configured(Checkpointed(EditDoc, 1060))

\* a level table with the keys 0..n and strictly increasing boundaries
StrictlyIncreasing(table, n) ==
  /\ DOMAIN table = 0..n
  /\ \A i \in 0..(n - 1) : table[i] < table[i + 1]

\* the crossings a tick resolves when it starts from the level stored in
\* doc and observes price
CrossingsFrom(doc, price) ==
  LET seed == SeedState(doc).currentGridIndex
      new == FindGridLevelIndex(doc, price)
  IN IF seed = Null THEN 0
     ELSE IF new > seed THEN new - seed ELSE seed - new

\* locate(newTable, p), clamped to 0 and n when p is outside the new range
LocateClamped(u, n, p) ==
  IF p <= u.lowerLimit THEN 0
  ELSE IF p >= u.upperLimit THEN n
  ELSE Locate(u.levels, n, p)

\* C22: when updateGridPriceLimits succeeds on a grid with a last known
\* price p, the currentGridIndex it stores is locate(newTable, p), 0 or the
\* level count when p is outside the new range, and a tick that starts from
\* the stored grid and observes p resolves no crossing.
C22_Reprojected ==
  (/\ admin.ul.pc \in {"update", "done"}
   /\ admin.ul.price # Null
   /\ StrictlyIncreasing(admin.ul.updateData.levels, admin.ul.newGridCount))
  => LET u == admin.ul.updateData
         p == admin.ul.price
         doc == ApplyUpdate([db["g1"] EXCEPT !.currentPrice = p], u)
     IN /\ u.currentGridIndex = LocateClamped(u, admin.ul.newGridCount, p)
        /\ CrossingsFrom(doc, p) = 0

\* idx is a level of price p in the stored grid doc, by the limits, by the
\* ends of the table or by the interval of the table that holds p
LevelOfPrice(doc, idx, p) ==
  LET n == doc.gridCount
  IN \/ (p <= doc.lowerLimit \/ p <= doc.levels[0]) /\ idx = 0
     \/ (p >= doc.upperLimit \/ p >= doc.levels[n]) /\ idx = n
     \/ /\ idx \in 0..(n - 1)
        /\ doc.levels[idx] <= p /\ p < doc.levels[idx + 1]

\* C23: in every stored state of the grid, under every interleaving of
\* updateGridPriceLimits with updateGridCurrentPrice, a set currentGridIndex
\* is a level of the stored currentPrice in the stored level table.
C23_IndexMatchesStoredPrice ==
  db["g1"].currentGridIndex # Null
  => /\ db["g1"].currentPrice # Null
     /\ LevelOfPrice(db["g1"], db["g1"].currentGridIndex, db["g1"].currentPrice)

\* the arguments of the call of createGrid are a valid configuration
ValidCreate ==
  /\ admin.create.upperLimit > admin.create.lowerLimit
  /\ admin.create.gridCount >= 2
  /\ DOMAIN admin.create.levels # {}
       => \A i, j \in DOMAIN admin.create.levels :
            i < j => admin.create.levels[i] < admin.create.levels[j]

\* C24: createGrid called with upperLimit <= lowerLimit, with gridCount < 2
\* or with a level table that is not strictly increasing stores no grid.
C24_InvalidCreateRejected ==
  (admin.create.pc # "idle" /\ ~ValidCreate) => DOMAIN db = {}

\* C25: locating a price in a level table that is not strictly increasing
\* returns no level.
C25_UnsortedTableFails ==
  (probe.called /\ probe.grid.levels \in UnsortedTables) => probe.index = Null

\* C26: the process exits on a shutdown signal only when no execution is in
\* flight: no task is waiting for the answer of quoteAndSwap at the step that
\* ends the process.
C26_ShutdownWaitsForExecution ==
  [][(proc = "running" /\ proc' = "new")
       => \A t \in TaskIds : task[t].pc # "swap"]_vars

\* the number of successful executions of one side for grid g in this run
SuccessCount(g, side) ==
  Cardinality({x \in Successes : /\ task[x[1]].log[x[2]].grid = g
                                  /\ task[x[1]].log[x[2]].side = side})

\* the number of trade records of one side for grid g
RecordCount(g, side) ==
  Cardinality({j \in 1..Len(trades) : trades[j].gridId = g /\ trades[j].side = side})

\* C27: in every state of the first run with no execution in flight, for
\* each grid the number of BUY records, totalBuys and the number of
\* successful BUY executions are equal, and likewise for SELL.
C27_OneRecordOneIncrement ==
  (restarts = 0 /\ \A t \in TaskIds : task[t].pc \notin InFlightPcs)
  => \A g \in GridIds :
       /\ RecordCount(g, "BUY") = SuccessCount(g, "BUY")
       /\ db[g].totalBuys = SuccessCount(g, "BUY")
       /\ RecordCount(g, "SELL") = SuccessCount(g, "SELL")
       /\ db[g].totalSells = SuccessCount(g, "SELL")

\* the step in which updateGridCurrentPrice raises in task t
CheckpointFails(t) ==
  task[t].pc = "savePrice" /\ task'[t] # task[t] /\ faults' = faults + 1

\* the step in which a persistence call of a trade function raises in task t
TradeSaveFails(t) ==
  /\ task[t].pc \in {"saveAmounts", "incTrades", "createTrade"}
  /\ task'[t] # task[t]
  /\ faults' = faults + 1

\* C28: when updateGridCurrentPrice raises, the tracking state of the grid
\* (level pointer, last price, balances) is left as it was updated, and the
\* tick goes on with the grids after it; when a persistence call of a trade
\* function raises, the balances and the last price of the tracking state
\* are left as they were updated; every observation of a grid reads its
\* previous level from the tracking state.
C28_MemoryAuthoritative ==
  [][\A t \in TaskIds :
       /\ TradeSaveFails(t)
            => LET g == grids[task[t].gi].id
               IN /\ gridStateMap'[g].tokenAmounts = gridStateMap[g].tokenAmounts
                  /\ gridStateMap'[g].lastCheckedPrice = gridStateMap[g].lastCheckedPrice
                  /\ task'[t].pc # "done" \/ task'[t].gi = Len(grids) + 1
       /\ CheckpointFails(t)
            => LET g == grids[task[t].gi].id
               IN /\ gridStateMap'[g] = gridStateMap[g]
                  /\ task'[t].gi > task[t].gi
                  /\ task'[t].obs[g].ended
                  /\ task'[t].obs[g].endLevel = gridStateMap[g].currentGridIndex
       /\ \A g \in GridIds :
            (~task[t].obs[g].seen /\ task'[t].obs[g].seen)
            => task'[t].obs[g].prev = gridStateMap[g].currentGridIndex]_vars

\* the first tick recorded level 1 of g1 at price 106 and its checkpoint was
\* not stored; the second tick read level 1 as the previous level and found
\* the price in another level
C28_Witness ==
  /\ task[1].pc = "done"
  /\ task[1].obs["g1"].first /\ task[1].obs["g1"].price = 106
  /\ db["g1"].currentGridIndex = Null
  /\ faults = 1
  /\ task[2].obs["g1"].seen /\ ~task[2].obs["g1"].first
  /\ task[2].obs["g1"].prev = 1
  /\ task[2].obs["g1"].new # 1

\* C29: the balances of every tracked grid, in the tracking state and as
\* stored, are never negative.
C29_InventoryNonNegative ==
  \A g \in GridIds :
    /\ g \in DOMAIN gridStateMap
         => /\ gridStateMap[g].tokenAmounts.source >= 0
            /\ gridStateMap[g].tokenAmounts.target >= 0
    /\ db[g].sourceTokenAmount = Null \/ db[g].sourceTokenAmount >= 0
    /\ db[g].targetTokenAmount = Null \/ db[g].targetTokenAmount >= 0

\* C30: the level table written by a call of updateGridPriceLimits has the
\* keys 0..levelCount, begins at lowerLimit, ends at upperLimit, and is
\* strictly increasing and evenly spaced.
C30_GeneratedTable ==
  admin.ul.pc = "done"
  => LET doc == db["g1"]
         n == doc.gridCount
     IN /\ StrictlyIncreasing(doc.levels, n)
        /\ doc.levels[0] = doc.lowerLimit
        /\ doc.levels[n] = doc.upperLimit
        /\ \A i \in 0..(n - 1) :
             doc.levels[i + 1] - doc.levels[i] = doc.levels[1] - doc.levels[0]

\* C31: every step of a call of updateGridPriceLimits leaves all fields of
\* the stored grid other than the limits, the level table, the level count
\* and currentGridIndex as they are: the balances, the trade counters and
\* currentPrice are unchanged.
C31_EditFrame ==
  [][admin'.ul # admin.ul
       => db'["g1"] = [db["g1"] EXCEPT
                         !.upperLimit = db'["g1"].upperLimit,
                         !.lowerLimit = db'["g1"].lowerLimit,
                         !.levels = db'["g1"].levels,
                         !.gridCount = db'["g1"].gridCount,
                         !.currentGridIndex = db'["g1"].currentGridIndex]]_vars

\* a call of updateGridPriceLimits has written new limits and a new level
\* count to a grid that holds balances and has a stored price
C31_Witness ==
  /\ admin.ul.pc = "done"
  /\ db["g1"].upperLimit # EditDoc.upperLimit
  /\ db["g1"].gridCount # EditDoc.gridCount
  /\ db["g1"].currentPrice = 1060
  /\ db["g1"].sourceTokenAmount = EditDoc.sourceTokenAmount
  /\ db["g1"].targetTokenAmount = EditDoc.targetTokenAmount
  /\ EditDoc.targetTokenAmount > 0

\* the applications of a checkpoint function recorded in call: each one that
\* starts from the state an earlier one with the same arguments left
\* changes nothing
Idempotent(call) ==
  call.calls > 0
  => \A i, j \in 1..Len(call.applied) :
       (i < j /\ call.applied[i].args = call.applied[j].args
              /\ call.applied[j].before = call.applied[i].after)
       => call.applied[j].after = call.applied[j].before

\* C32: applying updateGridCurrentPrice with the same price, or
\* updateGridTokenAmounts with the same amounts, to the state the first
\* application left gives that state again.
C32_CheckpointIdempotent == Idempotent(admin.ucp) /\ Idempotent(admin.uta)

\* the same price and the same amounts have each been written twice in a
\* row, and the first writes changed the stored grid
C32_Witness ==
  /\ admin.ucp.calls = 2 /\ admin.ucp.pc = "done"
  /\ admin.ucp.applied[1].args = admin.ucp.applied[2].args
  /\ admin.ucp.applied[2].before = admin.ucp.applied[1].after
  /\ admin.ucp.applied[1].after # admin.ucp.applied[1].before
  /\ admin.uta.calls = 2 /\ admin.uta.pc = "done"
  /\ admin.uta.applied[1].args = admin.uta.applied[2].args
  /\ admin.uta.applied[2].before = admin.uta.applied[1].after
  /\ admin.uta.applied[1].after # admin.uta.applied[1].before

\* a tick saw g1, whose level table is [100,105,110,115,120], at level 1
\* and observed price 118
Scenario1(t) ==
  LET ob == task[t].obs["g1"]
  IN ob.seen /\ ob.prev = 1 /\ ob.price = 118

\* C33 as stated: with level table [100,105,110,115,120] and level pointer
\* 1, a tick that observes price 118 finds level 4 and attempts SELL at
\* the levels 2, 3, 4 in that order.
C33_Scenario1AsStated ==
  \A t \in TaskIds :
    Scenario1(t)
    => /\ task[t].obs["g1"].new = 4
       /\ IsPrefix(Crossings(GridLog(t, "g1")), SellsExpected(1, 4))
       /\ task[t].obs["g1"].ended
            => Crossings(GridLog(t, "g1")) = SellsExpected(1, 4)

\* C33: with level table [100,105,110,115,120] and level pointer 1, a tick
\* that observes price 118 finds level 3, the level whose interval
\* [115, 120) holds the price, and attempts SELL at the levels 2, 3 in that
\* order and nothing else.
C33_Scenario1 ==
  \A t \in TaskIds :
    Scenario1(t)
    => /\ GridDocs["g1"].levels = [i \in 0..4 |-> 100 + 5 * i]
       /\ task[t].obs["g1"].new = 3
       /\ IsPrefix(Crossings(GridLog(t, "g1")), <<<<"SELL", 2>>, <<"SELL", 3>>>>)
       /\ task[t].obs["g1"].ended
            => Crossings(GridLog(t, "g1")) = <<<<"SELL", 2>>, <<"SELL", 3>>>>

\* a tick that saw g1 at level 1 and price 118 has finished the grid after
\* two successful SELL executions, and the level pointer is 3
C33_Witness ==
  \E t \in TaskIds :
    /\ Scenario1(t)
    /\ task[t].obs["g1"].ended
    /\ Len(GridLog(t, "g1")) = 2
    /\ \A j \in 1..2 : GridLog(t, "g1")[j].ok
    /\ task[t].obs["g1"].endLevel = 3

\* C34: a tick that finds the price of a tracked grid in the level the
\* pointer is at attempts no execution for the grid and is done with it in
\* the step of the observation; that step leaves the level pointer and the
\* balances of the tracking state, the stored grid and the trade records as
\* they are.
C34_SameLevelNoEffect ==
  /\ [](\A t \in TaskIds : \A g \in GridIds :
          LET ob == task[t].obs[g]
          IN (ob.seen /\ ob.prev # Null /\ ob.new = ob.prev)
             => /\ ob.ended /\ ob.endLevel = ob.prev
                /\ GridLog(t, g) = <<>>
                /\ ~InProcessGrid(t, g))
  /\ [][\A t \in TaskIds : \A g \in GridIds :
          (Observes(t, g) /\ task'[t].obs[g].prev # Null
                          /\ task'[t].obs[g].new = task'[t].obs[g].prev)
          => /\ gridStateMap'[g].currentGridIndex = gridStateMap[g].currentGridIndex
             /\ gridStateMap'[g].tokenAmounts = gridStateMap[g].tokenAmounts
             /\ db'[g] = db[g]
             /\ trades' = trades]_vars

\* a tick found g1 at level 0 with the price still in level 0, after the
\* tick that brought it there
C34_Witness ==
  /\ task[1].pc = "done"
  /\ task[2].obs["g1"].seen
  /\ task[2].obs["g1"].prev = 0
  /\ task[2].obs["g1"].new = 0
  /\ task[2].pc = "done"

\* C35: quoteAndSwap never raises to its caller: every call that has ended
\* returned a result; a result without success carries an error, and a
\* result with success is only returned after the transaction was sent and
\* its confirmation reported no error.
C35_SwapNeverRaises ==
  /\ admin.swap.pc # "raised"
  /\ admin.swap.pc = "returned"
       => /\ admin.swap.result.success \in BOOLEAN
          /\ ~admin.swap.result.success
               => admin.swap.result.error # Absent
          /\ admin.swap.result.success
               => /\ admin.swap.sent
                  /\ admin.swap.confirmation = "null"
                  /\ admin.swap.result.signature = admin.swap.signature
                  /\ admin.swap.result.signature # Absent
                  /\ admin.swap.result.error = Absent

\* calls have returned a failure out of the catch block after the
\* transaction was sent
C35_Witness ==
  /\ admin.swap.pc = "returned"
  /\ admin.swap.confirmation = "raised"
  /\ ~admin.swap.result.success
  /\ admin.swap.result.error = "confirm failed"

\* C40: a result of quoteAndSwap without success and without a signature
\* means that no transaction was sent.
C40_UnsignedFailureNotSent ==
  (admin.swap.pc = "returned" /\ ~admin.swap.result.success
                              /\ admin.swap.result.signature = Absent)
  => ~admin.swap.sent

\* the step in which quoteAndSwap returns success = false to task t
FailedSwapStep(t) ==
  task[t].pc = "swap" /\ task'[t] # task[t] /\ faults' = faults + 1

\* C36: the step in which quoteAndSwap returns without success leaves the
\* balances of the tracking state, the stored grids (balances and trade
\* counters) and the trade records as they are, and no trade record is
\* ever written for a failed attempt.
C36_FailedSwapNoEffect ==
  /\ [][\A t \in TaskIds :
          FailedSwapStep(t)
          => /\ gridStateMap'[grids[task[t].gi].id].tokenAmounts
                  = gridStateMap[grids[task[t].gi].id].tokenAmounts
             /\ db' = db
             /\ trades' = trades
             /\ ~task'[t].log[Len(task'[t].log)].ok]_vars
  /\ [](\A t \in TaskIds : \A j \in 1..Len(task[t].log) :
          ~task[t].log[j].ok
          => \A k \in 1..Len(trades) :
               ~(/\ trades[k].gridId = task[t].log[j].grid
                 /\ trades[k].side = task[t].log[j].side
                 /\ trades[k].gridLevel = task[t].log[j].level
                 /\ trades[k].move = task[t].log[j].move
                 /\ trades[k].tick = t))

\* a tick had a failed and then a successful execution for g1: one trade
\* record, one counted SELL, and the balances of one SELL
C36_Witness ==
  \E t \in TaskIds :
    /\ Len(GridLog(t, "g1")) = 2
    /\ ~GridLog(t, "g1")[1].ok /\ GridLog(t, "g1")[2].ok
    /\ GridLog(t, "g1")[1].side = "SELL"
    /\ task[t].obs["g1"].ended
    /\ Len(trades) = 1
    /\ db["g1"].totalSells = 1

\* no two ticks were at work on a grid at the same time: of two ticks that
\* saw a grid, one had finished when the other saw it
NoOverlap ==
  \A t, u \in TaskIds : \A g \in GridIds :
    (t # u /\ task[t].obs[g].seen /\ task[u].obs[g].seen)
    => (u \in task[t].obs[g].after \/ t \in task[u].obs[g].after)

\* the level of the first observation of grid g in this run: the level
\* recorded by the first check, or the stored level initialize loaded
BaseLevel(grid) ==
  IF \E t \in TaskIds : task[t].obs[grid.id].first
  THEN task[CHOOSE t \in TaskIds : task[t].obs[grid.id].first].obs[grid.id].new
  ELSE OrNull(grid.currentGridIndex)

\* the source amounts traded at the levels lo+1 .. hi
RECURSIVE SourceBetween(_, _, _)
SourceBetween(grid, lo, hi) ==
  IF hi <= lo THEN 0
  ELSE SourceTokenAmount(grid, grid.levels[hi]) + SourceBetween(grid, lo, hi - 1)

\* C37: in a first run with every execution successful and no overlapping
\* ticks, between ticks the balances of a tracked grid are a function of
\* its level pointer: target - quantityPerLevel * level has the value of
\* the first observation, and source differs from its first value by the
\* amounts of the levels between the first level and the pointer.
C37_InventoryFollowsLevel ==
  (/\ restarts = 0 /\ proc = "running"
   /\ \A t \in TaskIds : task[t].pc \in {"idle", "fetch", "done"}
   /\ \A a \in Attempts : a.ok
   /\ NoOverlap)
  => \A k \in 1..Len(grids) :
       LET grid == grids[k]
           g == grid.id
           level == gridStateMap[g].currentGridIndex
           base == BaseLevel(grid)
       IN (g \in DOMAIN gridStateMap /\ level # Null)
          => /\ base # Null
             /\ gridStateMap[g].tokenAmounts.target - QuantityPerLevel(g) * level
                  = OrZero(grid.targetTokenAmount) - QuantityPerLevel(g) * base
             /\ gridStateMap[g].tokenAmounts.source
                  = OrZero(grid.sourceTokenAmount) + SourceBetween(grid, level, base)
                    - SourceBetween(grid, base, level)

\* two ticks, one after the other, took g1 from level 1 up to level 3 and
\* back to level 1 with every execution successful: the balances are those
\* of the start
C37_Witness ==
  /\ restarts = 0 /\ NoOverlap
  /\ \A t \in TaskIds : task[t].pc = "done"
  /\ \A a \in Attempts : a.ok
  /\ \E t, u \in TaskIds :
       /\ task[t].obs["g1"].prev = 1 /\ task[t].obs["g1"].new = 3
       /\ task[u].obs["g1"].prev = 3 /\ task[u].obs["g1"].new = 1
  /\ gridStateMap["g1"].currentGridIndex = 1
  /\ gridStateMap["g1"].tokenAmounts.source = GridDocs["g1"].sourceTokenAmount
  /\ gridStateMap["g1"].tokenAmounts.target = GridDocs["g1"].targetTokenAmount
  /\ Len(trades) = 4

\* the levels for which an execution was attempted or is in flight
AttemptedLevels(g) ==
  {a.level : a \in {b \in Attempts : b.grid = g}}
  \cup {task[t].i : t \in {u \in TaskIds : task[u].pc = "swap" /\ InProcessGrid(u, g)}}

\* C38: the level pointer of a tracked grid is unset or one of
\* 0..levelCount, and every level for which an execution is attempted is a
\* key of the grid's level table.
C38_LevelInRange ==
  \A g \in GridIds :
    /\ g \in DOMAIN gridStateMap
         => \/ gridStateMap[g].currentGridIndex = Null
            \/ gridStateMap[g].currentGridIndex \in 0..GridDocs[g].gridCount
    /\ \A t \in TaskIds :
         task[t].obs[g].seen => task[t].obs[g].new \in 0..GridDocs[g].gridCount
    /\ AttemptedLevels(g) \subseteq DOMAIN GridDocs[g].levels

\* a tick found g1 at level 4, set by a price above the range, observed a
\* price below the range, attempted four executions and left the pointer
\* at level 0
C38_Witness ==
  \E t \in TaskIds :
    /\ task[t].obs["g1"].prev = 4 /\ task[t].obs["g1"].price = 95
    /\ task[t].obs["g1"].ended
    /\ AttemptedLevels("g1") = 1..4
    /\ gridStateMap["g1"].currentGridIndex = 0

\* C39: at most one interval is set at any time, and while stop() is the
\* last call made none is set and no tick has gone on to process the grids.
C39_OneTimer ==
  /\ Cardinality(admin.life.intervals) <= 1
  /\ admin.life.lastCall = "stop" => admin.life.intervals = {}
  /\ \A j \in 1..Len(admin.life.processed) :
       admin.life.processed[j].lastCall # "stop"

====
